---- MODULE Spec2Model ----
(***************************************************************************)
(* Model of the GRIDSS/PURPLE/LINX runner script                           *)
(* (deployment/assets/run_gpl.py) and of the helpers it uses.              *)
(*                                                                         *)
(* Spec        the runner's main() as a state machine: argument parsing,   *)
(*             VCF validation, sample acquisition, reference sync,         *)
(*             configuration, the Nextflow run, upload_data_outputs, and   *)
(*             delivery of a termination signal at any point.              *)
(* HeaderSpec  get_vcf_header(): the chunk loop over a gzip stream, with   *)
(*             decompress_gzip_chunks() applied to every accumulated       *)
(*             prefix.                                                     *)
(***************************************************************************)
EXTENDS Integers, Sequences, FiniteSets, TLC

VARIABLES
    pc,            \* position of main(): see MainPositions
    args,          \* the parsed command line (kinds of the remote paths, flags)
    pullQueue,     \* remote_paths still to download in pull_sample_data
    transfers,     \* every 'aws s3 ...' command executed, in order
    outputTree,    \* OUTPUT_LOCAL_DIR: children, nextflow/ and nextflow/work/
    remaining,     \* children of OUTPUT_LOCAL_DIR not yet visited by the upload loop
    tasks_failed,  \* upload_data_outputs' local list
    publishes,     \* the calls of upload_data_outputs made so far: caller and flag
    uploadActive,  \* number of calls of upload_data_outputs in progress
    configWrites,  \* number of times nextflow.config was written
    returncode,    \* process.returncode of Nextflow (-1: not terminated)
    exitCode,      \* exit status of the runner (-1: none)
    exitReason,    \* which statement ended the runner
    sigAt,         \* position at which a termination signal was delivered
    validated,     \* the VCF headers get_vcf_header has returned to main(), in order
    hFile,         \* get_vcf_header: the remote object (gzip members)
    hPos,          \* get_vcf_header: len(data_raw)
    hChunks,       \* get_vcf_header: number of chunks taken from the iterator
    hHeader,       \* get_vcf_header: header
    hPc,           \* get_vcf_header: "loop", "returned", "exit_eof", "exit_malformed"
    call,          \* a function called on its own: its name and arguments
    ret            \* what that call has done so far, [done |-> FALSE] before it ran

mainVars == <<pc, args, pullQueue, transfers, outputTree, remaining, tasks_failed,
              publishes, uploadActive, configWrites, returncode, exitCode,
              exitReason, sigAt, validated>>
headerVars == <<hFile, hPos, hChunks, hHeader, hPc>>
callVars == <<call, ret>>
vars == <<pc, args, pullQueue, transfers, outputTree, remaining, tasks_failed,
          publishes, uploadActive, configWrites, returncode, exitCode,
          exitReason, sigAt, validated, hFile, hPos, hChunks, hHeader, hPc, call, ret>>

(***************************************************************************)
(* Remote paths.  A path is modelled by what the code asks of it: whether  *)
(* it starts with gds://, with s3://, or with neither (then                *)
(* util.match_remote_path returns None).                                   *)
(***************************************************************************)
PathKinds == {"gds", "s3", "bad"}
NoPath == "none"

\* util.match_remote_path(path) is not None
match_remote_path(kind) == kind \in {"gds", "s3"}

\* pathlib constants of the script; a path is the sequence of its components
OUTPUT_LOCAL_DIR == <<"output">>
NEXTFLOW_DIR == OUTPUT_LOCAL_DIR \o <<"nextflow">>
WORK_DIR == NEXTFLOW_DIR \o <<"work">>
SAMPLE_LOCAL_DIR == <<"data", "sample">>
REFERENCE_LOCAL_DIR == <<"data", "reference">>

\* what the pipeline may leave in OUTPUT_LOCAL_DIR beside the log and nextflow/
PipelineOutputs == {"purple", "linx"}
LogFile == "pipeline_log.txt"

MainPositions == {"get_arguments", "validate_smlv", "validate_sv", "pull_sample_data",
                  "reference_sync", "write_config", "popen", "wait", "upload_main",
                  "upload_nextflow", "upload_cache", "upload_check", "exited", "killed"}

Terminated == pc \in {"exited", "killed"}

\* sys.exit(code), or an uncaught exception (Python then exits with status 1)
Exit(code, reason) ==
    /\ pc' = "exited"
    /\ exitCode' = code
    /\ exitReason' = reason
    /\ uploadActive' = 0

\* a statement of main() other than an exit leaves these alone
NoExit == UNCHANGED <<exitCode, exitReason>>

(***************************************************************************)
(* execute_command and execute_object_store_operation                      *)
(***************************************************************************)
\* a caller that passed ignore_errors=True
ignore_errors_passed == TRUE

\* the ignore_errors argument execute_object_store_operation passes to
\* execute_command: none, so the parameter keeps its default
ignore_errors == FALSE

\* execute_command: a non-zero return code ends the runner unless ignore_errors
execute_command_exits(rc) == rc # 0 /\ ~ignore_errors

\* src.startswith('gds://') needs src to be a str; a pathlib.Path has no startswith
HasStartswith(src) == src.isStr

Str(path) == [path |-> path, isStr |-> TRUE]
PathObject(path) == [path |-> path, isStr |-> FALSE]

Command(op, src, dst, rc, caller) ==
    [op |-> op, src |-> src.path, dst |-> dst, rc |-> rc, caller |-> caller]

\* the outcomes of one execute_object_store_operation whose source has this kind:
\* the command's return code, or no credentials for any ancestor of a GDS path
Outcomes(kind) == {"rc0", "rc1"} \cup (IF kind = "gds" THEN {"no_credentials"} ELSE {})
Rc(outcome) == IF outcome = "rc0" THEN 0 ELSE 1

(***************************************************************************)
(* main()                                                                  *)
(***************************************************************************)
ArgSets ==
    [tumor_bam_fp : PathKinds, normal_bam_fp : PathKinds,
     tumor_smlv_vcf_fp : PathKinds \cup {NoPath},
     tumor_sv_vcf_fp : PathKinds \cup {NoPath},
     output_dir : {"gds", "s3"},
     upload_nf_cache : BOOLEAN]

MainInit ==
    /\ pc = "get_arguments"
    /\ args \in ArgSets
    /\ pullQueue = <<>>
    /\ transfers = <<>>
    /\ outputTree = [children |-> {LogFile}, work |-> FALSE]
    /\ remaining = {}
    /\ tasks_failed = <<>>
    /\ publishes = <<>>
    /\ uploadActive = 0
    /\ configWrites = 0
    /\ returncode = -1
    /\ exitCode = -1
    /\ exitReason = "none"
    /\ sigAt = "none"
    /\ validated = <<>>

CallIdle ==
    /\ call = [fn |-> "none"]
    /\ ret = [done |-> FALSE]

HeaderIdle ==
    /\ hFile = <<>>
    /\ hPos = 0
    /\ hChunks = 0
    /\ hHeader = <<>>
    /\ hPc = "idle"

\* get_arguments: argparse ends the process with status 2 on a command line it rejects
GetArguments ==
    /\ pc = "get_arguments"
    /\ \E accepted \in BOOLEAN :
          IF accepted
          THEN pc' = "validate_smlv" /\ NoExit /\ UNCHANGED uploadActive
          ELSE Exit(2, "argparse")
    /\ UNCHANGED <<args, pullQueue, transfers, outputTree, remaining, tasks_failed,
                   publishes, configWrites, returncode, sigAt, validated>>

\* The outcome of get_vcf_header for a path of this kind, as main() sees it; the
\* chunk loop itself is HeaderSpec.
HeaderOutcomes(kind) ==
    CASE kind = "bad" -> {"assert_scheme"}        \* neither branch: assert False
      [] kind = "s3"  -> {"index_error"}          \* remote_path_components['bucket']
      [] kind = "gds" -> {"no_credentials", "eof_header", "malformed_header", "header"}

\* the statements of main() for one VCF: get_vcf_header, then check_vcf_ad_field
\* when checkAd, then check_vcf_sample_names.  hasAd: the header has a line
\* starting with '##FORMAT=<ID=AD,'; namesMatch: check_vcf_sample_names returns.
ValidateVcf(vcf, kind, checkAd, next) ==
    IF kind = NoPath
    THEN pc' = next /\ NoExit /\ UNCHANGED <<uploadActive, validated>>
    ELSE \E outcome \in HeaderOutcomes(kind), hasAd \in BOOLEAN, namesMatch \in BOOLEAN :
            /\ validated' = IF outcome = "header"
                             THEN Append(validated, [vcf |-> vcf, hasAd |-> hasAd,
                                                     namesMatch |-> namesMatch])
                             ELSE validated
            /\ CASE outcome # "header"      -> Exit(1, outcome)
                 [] outcome = "header" /\ checkAd /\ ~hasAd -> Exit(1, "no_ad_field")
                 [] outcome = "header" /\ (checkAd => hasAd) /\ ~namesMatch
                                            -> Exit(1, "sample_names")
                 [] OTHER                   -> pc' = next /\ NoExit /\ UNCHANGED uploadActive

\* main() without the call of check_vcf_ad_field on line 80
ValidateSmlvNoAdCheck ==
    /\ pc = "validate_smlv"
    /\ ValidateVcf("tumor_smlv_vcf_fp", args.tumor_smlv_vcf_fp, FALSE, "validate_sv")
    /\ UNCHANGED <<args, pullQueue, transfers, outputTree, remaining, tasks_failed,
                   publishes, configWrites, returncode, sigAt>>

ValidateSmlv ==
    /\ pc = "validate_smlv"
    /\ ValidateVcf("tumor_smlv_vcf_fp", args.tumor_smlv_vcf_fp, TRUE, "validate_sv")
    /\ UNCHANGED <<args, pullQueue, transfers, outputTree, remaining, tasks_failed,
                   publishes, configWrites, returncode, sigAt>>

\* remote_paths of pull_sample_data, in the dict's insertion order
remote_paths(a) ==
    <<[input_type |-> "tumor_bam_fp", kind |-> a.tumor_bam_fp],
      [input_type |-> "normal_bam_fp", kind |-> a.normal_bam_fp],
      [input_type |-> "tumor_bam_index_fp", kind |-> a.tumor_bam_fp],
      [input_type |-> "normal_bam_index_fp", kind |-> a.normal_bam_fp]>>
    \o (IF a.tumor_smlv_vcf_fp # NoPath
        THEN <<[input_type |-> "tumor_smlv_vcf_fp", kind |-> a.tumor_smlv_vcf_fp]>>
        ELSE <<>>)
    \o (IF a.tumor_sv_vcf_fp # NoPath
        THEN <<[input_type |-> "tumor_sv_vcf_fp", kind |-> a.tumor_sv_vcf_fp]>>
        ELSE <<>>)

ValidateSv ==
    /\ pc = "validate_sv"
    /\ ValidateVcf("tumor_sv_vcf_fp", args.tumor_sv_vcf_fp, FALSE, "pull_sample_data")
    /\ pullQueue' = IF pc' = "pull_sample_data" THEN remote_paths(args) ELSE pullQueue
    /\ UNCHANGED <<args, transfers, outputTree, remaining, tasks_failed,
                   publishes, configWrites, returncode, sigAt>>

\* one iteration of the download loop of pull_sample_data; after the last one,
\* main() goes on to the reference sync
PullSampleData ==
    /\ pc = "pull_sample_data"
    /\ pullQueue # <<>>
    /\ LET item == Head(pullQueue) IN
       IF ~match_remote_path(item.kind)
       THEN \* remote_path_components is None: TypeError at ['key_name']
            /\ Exit(1, "malformed_path")
            /\ UNCHANGED <<pullQueue, transfers>>
       ELSE \E outcome \in Outcomes(item.kind) :
               IF outcome = "no_credentials"
               THEN /\ Exit(1, "no_credentials")
                    /\ UNCHANGED <<pullQueue, transfers>>
               ELSE /\ transfers' = Append(transfers,
                          Command("cp", Str(<<item.kind, item.input_type>>),
                                  SAMPLE_LOCAL_DIR, Rc(outcome), "pull_sample_data"))
                    /\ IF execute_command_exits(Rc(outcome))
                       THEN Exit(1, "transfer_failed") /\ UNCHANGED pullQueue
                       ELSE /\ pullQueue' = Tail(pullQueue)
                            /\ pc' = IF Tail(pullQueue) = <<>> THEN "reference_sync" ELSE pc
                            /\ NoExit /\ UNCHANGED uploadActive
    /\ UNCHANGED <<args, outputTree, remaining, tasks_failed,
                   publishes, configWrites, returncode, sigAt, validated>>

\* execute_object_store_operation('sync', args.reference_data, REFERENCE_LOCAL_DIR)
ReferenceSync ==
    /\ pc = "reference_sync"
    /\ \E kind \in {"gds", "s3"}, outcome \in Outcomes("gds") :
          /\ outcome \in Outcomes(kind)
          /\ IF outcome = "no_credentials"
             THEN Exit(1, "no_credentials") /\ UNCHANGED transfers
             ELSE /\ transfers' = Append(transfers,
                        Command("sync", Str(<<kind, "reference_data">>),
                                REFERENCE_LOCAL_DIR, Rc(outcome), "main"))
                  /\ IF execute_command_exits(Rc(outcome))
                     THEN Exit(1, "transfer_failed")
                     ELSE pc' = "write_config" /\ NoExit /\ UNCHANGED uploadActive
    /\ UNCHANGED <<args, pullQueue, outputTree, remaining, tasks_failed,
                   publishes, configWrites, returncode, sigAt, validated>>

\* main() going on to Popen without writing nextflow.config
WriteConfigSkipped ==
    /\ pc = "write_config"
    /\ outputTree' = [outputTree EXCEPT !.children = @ \cup {"nextflow"}]
    /\ pc' = "popen"
    /\ NoExit
    /\ UNCHANGED <<args, pullQueue, transfers, remaining, tasks_failed, publishes,
                   uploadActive, configWrites, returncode, sigAt, validated>>

\* config_fp.parent.mkdir(parents=True); fh.write(config_blob)
WriteConfig ==
    /\ pc = "write_config"
    /\ outputTree' = [outputTree EXCEPT !.children = @ \cup {"nextflow"}]
    /\ configWrites' = configWrites + 1
    /\ pc' = "popen"
    /\ NoExit
    /\ UNCHANGED <<args, pullQueue, transfers, remaining, tasks_failed,
                   publishes, uploadActive, returncode, sigAt, validated>>

\* subprocess.Popen(command, ...)
Popen ==
    /\ pc = "popen"
    /\ pc' = "wait"
    /\ NoExit
    /\ UNCHANGED <<args, pullQueue, transfers, outputTree, remaining, tasks_failed,
                   publishes, uploadActive, configWrites, returncode, sigAt, validated>>

\* what main() does once process.wait() has returned with this return code
AfterWait(rc) ==
    IF rc # 0
    THEN /\ Exit(1, "nextflow_failed")
         /\ UNCHANGED <<publishes, remaining, tasks_failed>>
    ELSE \* upload_data_outputs(args.output_dir, args.upload_nf_cache) is entered
         /\ pc' = "upload_main"
         /\ publishes' = Append(publishes, [by |-> "main",
                                          upload_nf_cache |-> args.upload_nf_cache])
         /\ uploadActive' = uploadActive + 1
         /\ remaining' = outputTree'.children
         /\ tasks_failed' = <<>>
         /\ NoExit

\* Nextflow terminates, leaving what it wrote in the output tree; process.wait()
\* returns and main() checks the return code
Wait ==
    /\ pc = "wait"
    /\ \E rc \in {0, 1}, outs \in SUBSET PipelineOutputs, work \in BOOLEAN :
          /\ returncode' = rc
          /\ outputTree' = [children |-> outputTree.children \cup outs, work |-> work]
          /\ AfterWait(rc)
    /\ UNCHANGED <<args, pullQueue, transfers, configWrites, sigAt, validated>>

(***************************************************************************)
(* upload_data_outputs                                                     *)
(***************************************************************************)
\* str(path).replace(str(OUTPUT_LOCAL_DIR), '').lstrip('/')
s3_output_subdir(path) == Tail(path)
\* f'{output_dir}{s3_output_subdir}'
s3_output_dir(path) == <<"output_dir">> \o s3_output_subdir(path)

\* path.is_dir(): the log is a file, what the pipeline writes are directories
is_dir(name) == name # LogFile

\* the command string set on line 636: a plain string, so the braces stay as written
NextflowSyncCmd == "sync --exclude='*{WORK_DIR.name}/*'"

\* the source argument of the cache upload on line 648
CacheSource == PathObject(NEXTFLOW_DIR)

\* one execute_object_store_operation of upload_data_outputs followed by the
\* check of result.returncode
UploadOperation(op, src, dst, failure, next) ==
    IF ~HasStartswith(src)
    THEN \* AttributeError in execute_object_store_operation, uncaught
         /\ Exit(1, "attribute_error")
         /\ UNCHANGED <<transfers, tasks_failed>>
    ELSE \E outcome \in Outcomes(args.output_dir) :
            IF outcome = "no_credentials"
            THEN /\ Exit(1, "no_credentials")
                 /\ UNCHANGED <<transfers, tasks_failed>>
            ELSE /\ transfers' = Append(transfers,
                       Command(op, src, dst, Rc(outcome), "upload_data_outputs"))
                 /\ IF execute_command_exits(Rc(outcome))
                    THEN Exit(1, "transfer_failed") /\ UNCHANGED tasks_failed
                    ELSE /\ tasks_failed' = IF Rc(outcome) # 0
                                            THEN Append(tasks_failed, failure)
                                            ELSE tasks_failed
                         /\ pc' = next
                         /\ NoExit /\ UNCHANGED uploadActive

\* one iteration of 'for path in OUTPUT_LOCAL_DIR.iterdir()' (any order)
UploadMainOutputs ==
    /\ pc = "upload_main"
    /\ \E name \in remaining :
          LET path == OUTPUT_LOCAL_DIR \o <<name>>
              next == IF remaining \ {name} = {} THEN "upload_nextflow" ELSE pc
          IN /\ remaining' = remaining \ {name}
             /\ IF path = NEXTFLOW_DIR
                THEN /\ pc' = next
                     /\ NoExit
                     /\ UNCHANGED <<transfers, tasks_failed, uploadActive>>
                ELSE UploadOperation(IF is_dir(name) THEN "sync" ELSE "cp", Str(path),
                                     s3_output_dir(path), <<"upload of", path>>, next)
    /\ UNCHANGED <<args, pullQueue, outputTree, publishes, configWrites,
                   returncode, sigAt, validated>>

\* 'if NEXTFLOW_DIR.exists()': the sync of the Nextflow directory
UploadNextflowDir ==
    /\ pc = "upload_nextflow"
    /\ IF "nextflow" \in outputTree.children
       THEN UploadOperation(NextflowSyncCmd, Str(NEXTFLOW_DIR), s3_output_dir(NEXTFLOW_DIR),
                            <<"upload of", NEXTFLOW_DIR, "(without cache)">>, "upload_cache")
       ELSE /\ pc' = "upload_cache"
            /\ NoExit
            /\ UNCHANGED <<transfers, tasks_failed, uploadActive>>
    /\ UNCHANGED <<args, pullQueue, outputTree, remaining, publishes, configWrites,
                   returncode, sigAt, validated>>

\* 'if upload_nf_cache: if WORK_DIR.exists()': the upload of the work directory
UploadWorkDir ==
    /\ pc = "upload_cache"
    /\ IF args.upload_nf_cache /\ outputTree.work
       THEN UploadOperation(NextflowSyncCmd, CacheSource, s3_output_dir(WORK_DIR),
                            <<"upload of", NEXTFLOW_DIR, "(without cache)">>, "upload_check")
       ELSE /\ pc' = "upload_check"
            /\ NoExit
            /\ UNCHANGED <<transfers, tasks_failed, uploadActive>>
    /\ UNCHANGED <<args, pullQueue, outputTree, remaining, publishes, configWrites,
                   returncode, sigAt, validated>>

\* 'if tasks_failed: ... sys.exit(1)'; otherwise upload_data_outputs and main() return
UploadCheck ==
    /\ pc = "upload_check"
    /\ IF tasks_failed # <<>>
       THEN Exit(1, "tasks_failed")
       ELSE Exit(0, "returned")
    /\ UNCHANGED <<args, pullQueue, transfers, outputTree, remaining, tasks_failed,
                   publishes, configWrites, returncode, sigAt, validated>>

(***************************************************************************)
(* A termination signal.  main() installs no handler, so the default       *)
(* disposition ends the process where it stands.                           *)
(***************************************************************************)
\* a handler that calls upload_data_outputs before the process dies
SignalHandlerPublishes ==
    /\ pc' = "killed"
    /\ publishes' = Append(publishes, [by |-> "signal", upload_nf_cache |-> TRUE])
    /\ uploadActive' = uploadActive + 1
    /\ UNCHANGED transfers

SignalDisposition ==
    /\ pc' = "killed"
    /\ uploadActive' = 0
    /\ UNCHANGED <<publishes, transfers>>

Signal ==
    /\ ~Terminated
    /\ sigAt' = pc
    /\ SignalDisposition
    /\ UNCHANGED <<args, pullQueue, outputTree, remaining, tasks_failed,
                   configWrites, returncode, exitCode, exitReason, validated>>

Init == MainInit /\ HeaderIdle /\ CallIdle

Next ==
    \/ (GetArguments /\ UNCHANGED <<headerVars, callVars>>)
    \/ (ValidateSmlv /\ UNCHANGED <<headerVars, callVars>>)
    \/ (ValidateSv /\ UNCHANGED <<headerVars, callVars>>)
    \/ (PullSampleData /\ UNCHANGED <<headerVars, callVars>>)
    \/ (ReferenceSync /\ UNCHANGED <<headerVars, callVars>>)
    \/ (WriteConfig /\ UNCHANGED <<headerVars, callVars>>)
    \/ (Popen /\ UNCHANGED <<headerVars, callVars>>)
    \/ (Wait /\ UNCHANGED <<headerVars, callVars>>)
    \/ (UploadMainOutputs /\ UNCHANGED <<headerVars, callVars>>)
    \/ (UploadNextflowDir /\ UNCHANGED <<headerVars, callVars>>)
    \/ (UploadWorkDir /\ UNCHANGED <<headerVars, callVars>>)
    \/ (UploadCheck /\ UNCHANGED <<headerVars, callVars>>)
    \/ (Signal /\ UNCHANGED <<headerVars, callVars>>)

Spec == Init /\ [][Next]_vars

(***************************************************************************)
(* Properties of main() and upload_data_outputs, checked under Spec        *)
(***************************************************************************)
TransferIndexes == 1..Len(transfers)
UploadIndexes == {i \in TransferIndexes : transfers[i].caller = "upload_data_outputs"}
InputIndexes == {i \in TransferIndexes :
                    transfers[i].caller \in {"pull_sample_data", "main"}}

\* what a publish of the current output tree has to upload
UploadItems ==
    {OUTPUT_LOCAL_DIR \o <<name>> : name \in outputTree.children \ {"nextflow"}}
    \cup (IF "nextflow" \in outputTree.children THEN {NEXTFLOW_DIR} ELSE {})
    \cup (IF args.upload_nf_cache /\ outputTree.work THEN {WORK_DIR} ELSE {})

Attempted(item) == \E i \in UploadIndexes : transfers[i].dst = s3_output_dir(item)
Uploaded(item) ==
    \E i \in UploadIndexes : transfers[i].dst = s3_output_dir(item) /\ transfers[i].rc = 0
FailedItems ==
    {item \in UploadItems :
        \E i \in UploadIndexes : transfers[i].dst = s3_output_dir(item) /\ transfers[i].rc # 0}

\* the runner has exited and upload_data_outputs had been called
PublishEnded == pc = "exited" /\ publishes # <<>>

\* C1: whenever Nextflow was launched and has terminated, upload_data_outputs has
\* been called by the time the runner exits, whatever the return code; after a
\* non-zero return code the call includes the work cache and the exit status is 1.
C1_PublishAfterSubordinate ==
    (pc = "exited" /\ returncode # -1) =>
        /\ publishes # <<>>
        /\ returncode # 0 => (publishes[1].upload_nf_cache /\ exitCode = 1)

\* C2: when a publish has ended, every upload item (each child of the output
\* root other than nextflow/, then nextflow/, then the cache) has been attempted,
\* whichever items failed.
C2_EveryItemAttempted ==
    PublishEnded => \A item \in UploadItems : Attempted(item)

\* C3: when a publish has ended, it is reported as failed exactly if some item
\* failed, only after every item was attempted, and the failure report names
\* exactly the failed items.
C3_AggregateReport ==
    PublishEnded =>
        /\ (exitCode # 0) <=> (FailedItems # {})
        /\ FailedItems # {} =>
              /\ \A item \in UploadItems : Attempted(item)
              /\ {tasks_failed[i][2] : i \in 1..Len(tasks_failed)} = FailedItems

\* C4: a process ended by a termination signal has, before dying, called
\* upload_data_outputs from the signal handler with the cache included.
C4_SignalPublishes ==
    pc = "killed" =>
        \E i \in 1..Len(publishes) :
            publishes[i].by = "signal" /\ publishes[i].upload_nf_cache

\* C5: at most one call of upload_data_outputs is in progress at any time, also
\* when a signal arrives while main() is uploading.
C5_OnePublishAtATime == uploadActive <= 1

C5_Witness ==
    /\ pc = "killed"
    /\ sigAt \in {"upload_main", "upload_nextflow", "upload_cache", "upload_check"}
    /\ Len(publishes) = 1
    /\ transfers # <<>>

\* C6: when a copy or sync of input acquisition returned non-zero, the runner
\* exits with status 1 and has called upload_data_outputs before exiting.
C6_PublishAfterTransferFailure ==
    (pc = "exited" /\ \E i \in InputIndexes : transfers[i].rc # 0) =>
        (exitCode = 1 /\ publishes # <<>>)

\* validation passed: main() went on to pull_sample_data
ValidationPassed == pullQueue # <<>> \/ transfers # <<>>

\* every sample copy and the reference sync were executed and returned 0
InputTransfersSucceeded ==
    /\ Cardinality(InputIndexes) = Len(remote_paths(args)) + 1
    /\ \A i \in InputIndexes : transfers[i].rc = 0

\* validation passed, every input transfer succeeded, Nextflow returned 0 and
\* no upload item failed (no upload command returned non-zero, and credentials
\* were obtained for each)
FullSuccess ==
    /\ ValidationPassed
    /\ InputTransfersSucceeded
    /\ returncode = 0
    /\ \A i \in UploadIndexes : transfers[i].rc = 0
    /\ exitReason # "no_credentials"

\* C7: a runner whose command line was accepted exits with status 0 exactly when
\* validation passed, every input transfer succeeded, Nextflow returned 0 and
\* every upload item succeeded, and with status 1 otherwise.
C7_ExitCode ==
    (pc = "exited" /\ exitReason # "argparse") =>
        /\ (exitCode = 0) <=> FullSuccess
        /\ ~FullSuccess => exitCode = 1

\* the ways a run ends with one of the validation errors C8 lists
ValidationErrors == {"assert_scheme", "malformed_path", "sample_names", "no_ad_field"}

\* C8: a run that ends with an input validation error has executed no remote
\* copy or sync.
C8_NoTransferBeforeValidationError ==
    (pc = "exited" /\ exitReason \in ValidationErrors) => transfers = <<>>

(***************************************************************************)
(* get_vcf_header and decompress_gzip_chunks                               *)
(*                                                                         *)
(* A text is a sequence of characters; a remote object is a sequence of    *)
(* gzip members (bgzip writes one member per block), each holding a part   *)
(* of the text, or a byte stream that is not gzip at all.  A member is     *)
(* laid out as two magic bytes, the rest of its header, one byte per       *)
(* character of its content (a stored deflate block) and its trailer.      *)
(***************************************************************************)
NL == "<nl>"
TAB == "<tab>"

\* the texts the reader is run on
MetaLine == <<"#", "#", "a", NL>>
ColumnLine == <<"#", "C", "H", "R", "O", "M", TAB, "T", NL>>
DataLine == <<"1", NL>>
VcfTexts ==
    {MetaLine \o ColumnLine \o DataLine,       \* a VCF
     ColumnLine,                               \* a VCF without meta lines or records
     MetaLine \o MetaLine,                     \* comment lines only
     MetaLine \o DataLine,                     \* a record, no column line
     DataLine \o ColumnLine,                   \* a record before the column line
     MetaLine \o DataLine \o ColumnLine,       \* a record between meta and column line
     MetaLine \o <<"#", "C", "H">>,            \* cut before the column line is complete
     <<>>}

\* the number of gzip members a remote object is split into, at most
MaxMembers == 2

RECURSIVE Splits(_, _)
Splits(text, k) ==
    IF k = 1
    THEN {<<text>>}
    ELSE UNION {{<<SubSeq(text, 1, c)>> \o rest :
                    rest \in Splits(SubSeq(text, c + 1, Len(text)), k - 1)} :
                c \in 0..Len(text)}

\* remote objects: gzip members or the same bytes uncompressed, and gzip
\* objects of one member whose compressed data is invalid from its first byte
HeaderFiles ==
    {[gzip |-> g, corrupt |-> FALSE, members |-> m] :
        g \in BOOLEAN, m \in UNION {Splits(t, k) : t \in VcfTexts, k \in 1..MaxMembers}}
    \cup {[gzip |-> TRUE, corrupt |-> TRUE, members |-> <<t>>] : t \in VcfTexts \ {<<>>}}

RECURSIVE Concat(_)
Concat(members) ==
    IF members = <<>> THEN <<>> ELSE Head(members) \o Concat(Tail(members))

\* bytes of one member: magic (two bytes), rest of the header, content, trailer
MagicLen == Len(<<"magic 037", "magic 213">>)
HeaderLen == MagicLen + Len(<<"rest of header">>)
MemberLen(member) == HeaderLen + Len(member) + Len(<<"trailer">>)

RECURSIVE FileLen(_)
FileLen(members) ==
    IF members = <<>> THEN 0 ELSE MemberLen(Head(members)) + FileLen(Tail(members))

\* number of bytes of the remote object
ObjectLen(file) == IF file.gzip THEN FileLen(file.members) ELSE Len(Concat(file.members))

\* the lines of a text, each with its line end; the last one without when the
\* text does not end with a line end and keepLast (what readline returns at a
\* clean end of file; an exception raised while a line is being read loses it)
RECURSIVE Lines(_, _, _)
Lines(text, line, keepLast) ==
    IF text = <<>>
    THEN IF line # <<>> /\ keepLast THEN <<line>> ELSE <<>>
    ELSE IF Head(text) = NL
         THEN <<Append(line, NL)>> \o Lines(Tail(text), <<>>, keepLast)
         ELSE Lines(Tail(text), Append(line, Head(text)), keepLast)

\* gzip.GzipFile over the first n bytes of the members: the text read before the
\* stream ends, and how it ends: "eof" (the bytes end where a member ends),
\* "EOFError" (inside a member) or "BadGzipFile" (one byte of a magic number)
RECURSIVE GzipRead(_, _, _)
GzipRead(members, n, text) ==
    IF n = 0 \/ members = <<>>
    THEN [text |-> text, end |-> "eof"]
    ELSE IF n < MagicLen
    THEN [text |-> text, end |-> "BadGzipFile"]
    ELSE IF n < HeaderLen
    THEN [text |-> text, end |-> "EOFError"]
    ELSE IF n < MemberLen(Head(members))
    THEN LET got == IF n - HeaderLen < Len(Head(members))
                    THEN n - HeaderLen ELSE Len(Head(members))
         IN [text |-> text \o SubSeq(Head(members), 1, got), end |-> "EOFError"]
    ELSE GzipRead(Tail(members), n - MemberLen(Head(members)), text \o Head(members))

\* decompress_gzip_chunks(data) for data the first n bytes of the object: the
\* lines, or the exception it lets through (EOFError is handled inside;
\* BadGzipFile and zlib.error are not)
decompress_gzip_chunks(file, n) ==
    IF ~file.gzip
    THEN IF n = 0 THEN [lines |-> <<>>, raised |-> "none"]
                  ELSE [lines |-> <<>>, raised |-> "BadGzipFile"]
    ELSE IF file.corrupt /\ n > HeaderLen
    THEN [lines |-> <<>>, raised |-> "zlib.error"]
    ELSE LET r == GzipRead(file.members, n, <<>>) IN
         IF r.end = "BadGzipFile"
         THEN [lines |-> <<>>, raised |-> "BadGzipFile"]
         ELSE [lines |-> Lines(r.text, <<>>, r.end = "eof"), raised |-> "none"]

\* line.startswith(prefix)
startswith(line, prefix) ==
    Len(line) >= Len(prefix) /\ SubSeq(line, 1, Len(prefix)) = prefix

CommentMarker == <<"#">>
ColumnMarker == <<"#", "C", "H", "R", "O", "M">>

\* a scan that only looks for the column line
RECURSIVE ScanLinesColumnOnly(_, _)
ScanLinesColumnOnly(data_lines, i) ==
    IF i > Len(data_lines) THEN 0
    ELSE IF startswith(data_lines[i], ColumnMarker) THEN i
    ELSE ScanLinesColumnOnly(data_lines, i + 1)

\* the for loop over data_lines: the index of the first line that ends the scan
\* (0: every line is a comment line that is not the column line)
RECURSIVE ScanLines(_, _)
ScanLines(data_lines, i) ==
    IF i > Len(data_lines) THEN 0
    ELSE IF ~startswith(data_lines[i], CommentMarker) THEN i
    ELSE IF startswith(data_lines[i], ColumnMarker) THEN i
    ELSE ScanLines(data_lines, i + 1)

\* a handler of StopIteration that leaves the loop instead of exiting
OnStopIterationBreak == "returned"

\* what get_vcf_header does when next(file_chunk_iter) raises StopIteration:
\* 'Reached EOF ... without finding header line', sys.exit(1)
OnStopIteration == "exit_eof"

\* a handler of BadGzipFile that lets the exception through
OnBadGzipFileRaise == "raised"

\* 'except gzip.BadGzipFile: continue'
OnBadGzipFile == "loop"

HeaderInit ==
    /\ hFile \in HeaderFiles
    /\ hPos = 0
    /\ hChunks = 0
    /\ hHeader = <<>>
    /\ hPc = "loop"

MainIdle ==
    /\ pc = "idle"
    /\ args = [tumor_bam_fp |-> "gds", normal_bam_fp |-> "gds",
               tumor_smlv_vcf_fp |-> "gds", tumor_sv_vcf_fp |-> NoPath,
               output_dir |-> "gds", upload_nf_cache |-> FALSE]
    /\ pullQueue = <<>>
    /\ transfers = <<>>
    /\ outputTree = [children |-> {LogFile}, work |-> FALSE]
    /\ remaining = {}
    /\ tasks_failed = <<>>
    /\ publishes = <<>>
    /\ uploadActive = 0
    /\ configWrites = 0
    /\ returncode = -1
    /\ exitCode = -1
    /\ exitReason = "none"
    /\ sigAt = "none"
    /\ validated = <<>>

\* one iteration of 'while not header' whose next() raises StopIteration
ReadChunkStop ==
    /\ hPc = "loop"
    /\ hPos = ObjectLen(hFile)
    /\ hPc' = OnStopIteration
    /\ UNCHANGED <<hFile, hPos, hChunks, hHeader>>

\* one iteration of 'while not header' that gets a chunk of some length
ReadChunk ==
    /\ hPc = "loop"
    /\ \E len \in 1..(ObjectLen(hFile) - hPos) :
          LET n == hPos + len
              d == decompress_gzip_chunks(hFile, n)
              i == ScanLines(d.lines, 1)
          IN /\ hPos' = n
             /\ hChunks' = hChunks + 1
             /\ IF d.raised = "zlib.error"
                THEN hPc' = "raised" /\ hHeader' = hHeader
                ELSE IF d.raised = "BadGzipFile"
                THEN hPc' = OnBadGzipFile /\ hHeader' = hHeader
                ELSE IF i = 0
                THEN hPc' = "loop" /\ hHeader' = hHeader
                ELSE IF ~startswith(d.lines[i], CommentMarker)
                THEN hPc' = "exit_malformed" /\ hHeader' = hHeader
                ELSE hPc' = "returned" /\ hHeader' = SubSeq(d.lines, 1, i)
    /\ UNCHANGED hFile

HeaderNext ==
    \/ (ReadChunk /\ UNCHANGED <<mainVars, callVars>>)
    \/ (ReadChunkStop /\ UNCHANGED <<mainVars, callVars>>)

HeaderSpecInit == HeaderInit /\ MainIdle /\ CallIdle

HeaderSpec == HeaderSpecInit /\ [][HeaderNext]_vars

(***************************************************************************)
(* Properties of get_vcf_header, checked under HeaderSpec                  *)
(***************************************************************************)
\* the whole text of the object, line by line
FullLines(file) == Lines(Concat(file.members), <<>>, TRUE)

ColumnLineIndexes(file) ==
    {i \in 1..Len(FullLines(file)) : startswith(FullLines(file)[i], ColumnMarker)}

\* a valid compressed VCF: gzip; comment lines, then a complete column line
IsVcf(file) ==
    /\ file.gzip
    /\ ~file.corrupt
    /\ \E i \in ColumnLineIndexes(file) :
          /\ FullLines(file)[i][Len(FullLines(file)[i])] = NL
          /\ \A j \in 1..(i - 1) :
                /\ startswith(FullLines(file)[j], CommentMarker)
                /\ j \notin ColumnLineIndexes(file)

\* its header: the lines up to and including the column line
ExpectedHeader(file) ==
    LET i == CHOOSE k \in ColumnLineIndexes(file) :
                 \A j \in ColumnLineIndexes(file) : k <= j
    IN SubSeq(FullLines(file), 1, i)

\* C9: for a valid compressed VCF, however its bytes are cut into chunks,
\* get_vcf_header does not exit and returns the lines up to and including the
\* complete column line.
C9_ChunkingInvariant ==
    IsVcf(hFile) =>
        /\ hPc \notin {"exit_eof", "exit_malformed"}
        /\ hPc = "returned" => hHeader = ExpectedHeader(hFile)

\* the column line appears somewhere in what the stream decompresses to
ColumnLineAppears(file) == file.gzip /\ ~file.corrupt /\ ColumnLineIndexes(file) # {}

\* a line that is not a comment line appears in what the stream decompresses to
NonCommentLineAppears(file) ==
    /\ file.gzip
    /\ ~file.corrupt
    /\ \E i \in 1..Len(FullLines(file)) : ~startswith(FullLines(file)[i], CommentMarker)

NonCommentBeforeColumnLine(file) ==
    /\ file.gzip
    /\ ~file.corrupt
    /\ \E i \in ColumnLineIndexes(file) :
          \E j \in 1..(i - 1) : ~startswith(FullLines(file)[j], CommentMarker)

\* C11: when a line not beginning with the comment marker comes before the
\* column line, get_vcf_header never returns a header and never takes the EOF
\* exit, wherever the chunk boundaries fall; once the last chunk has been read
\* it has taken the 'Moved past header' exit.
C11_MalformedHeader ==
    NonCommentBeforeColumnLine(hFile) =>
        /\ hPc \in {"loop", "exit_malformed"}
        /\ hHeader = <<>>
        /\ hPos = ObjectLen(hFile) => hPc = "exit_malformed"

\* the non-comment line lies in a later chunk than the first comment line
C11_Witness ==
    /\ NonCommentBeforeColumnLine(hFile)
    /\ hPc = "exit_malformed"
    /\ hChunks >= 2
    /\ Len(hFile.members) = 2
    /\ startswith(Concat(hFile.members), CommentMarker)

\* ---------------------------------------------------------------------------
\* check_vcf_sample_names, called on its own on a header whose last line is
\* the column line.  A string is a sequence of atoms: TAB, NL, or a word.
\* ---------------------------------------------------------------------------

SampleNames == {<<"T1">>, <<"N1">>, <<"GERMLINE_SAMPLE">>}
MaxSamples == 3

FixedColumns ==
    <<<<"#CHROM">>, <<"POS">>, <<"ID">>, <<"REF">>, <<"ALT">>, <<"QUAL">>, <<"FILTER">>,
      <<"INFO">>, <<"FORMAT">>>>

\* str.join
RECURSIVE join(_, _)
join(sep, strings) ==
    IF strings = <<>> THEN <<>>
    ELSE IF Len(strings) = 1 THEN Head(strings)
    ELSE Head(strings) \o <<sep>> \o join(sep, Tail(strings))

Whitespace == {TAB, NL, " "}

\* str.rstrip
RECURSIVE rstrip(_)
rstrip(line) ==
    IF line # <<>> /\ line[Len(line)] \in Whitespace
    THEN rstrip(SubSeq(line, 1, Len(line) - 1))
    ELSE line

\* str.split(sep)
RECURSIVE split(_, _)
split(line, sep) ==
    LET at == {i \in 1..Len(line) : line[i] = sep} IN
    IF at = {} THEN <<line>>
    ELSE LET i == CHOOSE k \in at : \A m \in at : k <= m IN
         <<SubSeq(line, 1, i - 1)>> \o split(SubSeq(line, i + 1, Len(line)), sep)

SampleColumnsFrom == 9

get_samples_from_vcf_header_unstripped(vcf_header) ==
    LET header_line   == vcf_header[Len(vcf_header)]
        header_tokens == split(header_line, TAB)
    IN  SubSeq(header_tokens, SampleColumnsFrom + 1, Len(header_tokens))

get_samples_from_vcf_header(vcf_header) ==
    LET header_line   == vcf_header[Len(vcf_header)]
        header_tokens == split(rstrip(header_line), TAB)
    IN  SubSeq(header_tokens, SampleColumnsFrom + 1, Len(header_tokens))

\* the names looked for and not found, in the order of the input
RECURSIVE sample_name_missing(_, _)
sample_name_missing(sample_names_input, sample_names_vcf) ==
    IF sample_names_input = <<>> THEN <<>>
    ELSE LET first == Head(sample_names_input)
             rest  == sample_name_missing(Tail(sample_names_input), sample_names_vcf)
         IN  IF \E i \in 1..Len(sample_names_vcf) : sample_names_vcf[i] = first[2]
             THEN rest
             ELSE <<first>> \o rest

CountReport(sample_names_input, sample_names_vcf) ==
    [report   |-> "unexpected_count",
     expected |-> Len(sample_names_input),
     got      |-> Len(sample_names_vcf),
     listed   |-> sample_names_vcf]

sample_name_errors_unless_missing(sample_names_input, sample_names_vcf) ==
    IF /\ Len(sample_names_vcf) # Len(sample_names_input)
       /\ sample_name_missing(sample_names_input, sample_names_vcf) = <<>>
    THEN <<CountReport(sample_names_input, sample_names_vcf)>>
    ELSE <<>>

sample_name_errors_unless_found(sample_names_input, sample_names_vcf) ==
    IF Len(sample_names_vcf) # Len(sample_names_input)
          - Len(sample_name_missing(sample_names_input, sample_names_vcf))
    THEN <<CountReport(sample_names_input, sample_names_vcf)>>
    ELSE <<>>

sample_name_errors(sample_names_input, sample_names_vcf) ==
    IF Len(sample_names_vcf) # Len(sample_names_input)
    THEN <<CountReport(sample_names_input, sample_names_vcf)>>
    ELSE <<>>

NoneFound == <<"<none found>">>

MissingReport(missing, sample_names_vcf) ==
    [report    |-> "could_not_find",
     count     |-> Len(missing),
     vcf_names |-> IF Len(sample_names_vcf) = 0 THEN <<NoneFound>> ELSE sample_names_vcf,
     unmatched |-> missing]

check_vcf_sample_names(sample_names_input, vcf_fp, vcf_header) ==
    LET sample_names_vcf == get_samples_from_vcf_header(vcf_header)
        missing == sample_name_missing(sample_names_input, sample_names_vcf)
        errors  == sample_name_errors(sample_names_input, sample_names_vcf)
    IN  [done     |-> TRUE,
         critical |-> (IF missing # <<>>
                       THEN <<MissingReport(missing, sample_names_vcf)>> ELSE <<>>)
                      \o errors,
         exit     |-> IF errors # <<>> \/ missing # <<>> THEN 1 ELSE -1]

\* the sequences over S of length at most n
SeqsUpTo(S, n) == UNION {[1..k -> S] : k \in 0..n}

ColumnLineShapes == {"samples", "trailing_tab", "no_format"}

\* the column line written with the given sample columns
HeaderLine(shape, columns) ==
    CASE shape = "samples"      -> join(TAB, FixedColumns \o columns) \o <<NL>>
      [] shape = "trailing_tab" -> join(TAB, FixedColumns \o columns) \o <<TAB, NL>>
      [] shape = "no_format"    ->
            join(TAB, SubSeq(FixedColumns, 1, Len(FixedColumns) - 1)) \o <<NL>>

NamesInit ==
    \E tumor_name \in SampleNames, normal_name \in SampleNames,
       shape \in ColumnLineShapes, columns \in SeqsUpTo(SampleNames, MaxSamples) :
        /\ shape = "no_format" => columns = <<>>
        /\ call = [fn                 |-> "check_vcf_sample_names",
                   sample_names_input |-> <<<<"tumor", tumor_name>>, <<"normal", normal_name>>>>,
                   vcf_fp             |-> "gds",
                   vcf_header         |-> <<MetaLine, HeaderLine(shape, columns)>>,
                   columns            |-> columns]
        /\ ret = [done |-> FALSE]

CheckVcfSampleNames ==
    /\ call.fn = "check_vcf_sample_names"
    /\ ~ret.done
    /\ ret' = check_vcf_sample_names(call.sample_names_input, call.vcf_fp, call.vcf_header)
    /\ UNCHANGED call

NamesNext ==
    \/ (CheckVcfSampleNames /\ UNCHANGED <<mainVars, headerVars>>)

NamesSpecInit == NamesInit /\ MainIdle /\ HeaderIdle

NamesSpec == NamesSpecInit /\ [][NamesNext]_vars

\* ---------------------------------------------------------------------------
\* Properties of check_vcf_sample_names
\* ---------------------------------------------------------------------------

NamesChecked == call.fn = "check_vcf_sample_names" /\ ret.done

Expected(type) ==
    LET i == CHOOSE k \in 1..Len(call.sample_names_input) :
                 call.sample_names_input[k][1] = type
    IN  call.sample_names_input[i][2]

Observed(name) == \E i \in 1..Len(call.columns) : call.columns[i] = name

Reported(kind) == \E i \in 1..Len(ret.critical) : ret.critical[i].report = kind

\* C12: check_vcf_sample_names returns if and only if the header has exactly
\* two sample columns and both the expected tumor name and the expected normal
\* name are among them, in either order; on every other header it exits with
\* status 1.
C12_SampleNamesPass ==
    NamesChecked =>
        /\ ret.exit = -1 <=>
              (Len(call.columns) = 2 /\ Observed(Expected("tumor"))
                                     /\ Observed(Expected("normal")))
        /\ ret.exit # -1 => ret.exit = 1

\* the normal column comes before the tumor column and the check returns
C12_Witness ==
    /\ NamesChecked
    /\ ret.exit = -1
    /\ Expected("tumor") = <<"T1">>
    /\ call.columns = <<<<"N1">>, <<"T1">>>>

\* C13: whenever an expected name is absent and the number of sample columns is
\* not two, both the could-not-find report and the unexpected-count report are
\* logged and the call exits with status 1.
C13_NoMasking ==
    (/\ NamesChecked
     /\ ~Observed(Expected("tumor")) \/ ~Observed(Expected("normal"))
     /\ Len(call.columns) # 2) =>
        /\ Reported("could_not_find")
        /\ Reported("unexpected_count")
        /\ ret.exit = 1

\* the header has the tumor column only
C13_Witness ==
    /\ NamesChecked
    /\ Expected("tumor") = <<"T1">>
    /\ Expected("normal") = <<"N1">>
    /\ call.columns = <<<<"T1">>>>
    /\ Len(ret.critical) = 2

GermlineScenario ==
    /\ NamesChecked
    /\ Expected("tumor") = <<"T1">>
    /\ Expected("normal") = <<"N1">>
    /\ call.columns = <<<<"T1">>, <<"GERMLINE_SAMPLE">>>>

NormalMissingReported ==
    \E i \in 1..Len(ret.critical) :
        /\ ret.critical[i].report = "could_not_find"
        /\ ret.critical[i].unmatched = <<<<"normal", <<"N1">>>>>>

\* C14 as stated: expecting T1 and N1 on a header with the sample columns T1 and
\* GERMLINE_SAMPLE, the check fails reporting N1 missing and also logs an
\* unexpected-count message listing T1, GERMLINE_SAMPLE.
C14_GermlineOriginal ==
    GermlineScenario =>
        /\ ret.exit = 1
        /\ NormalMissingReported
        /\ \E i \in 1..Len(ret.critical) :
              /\ ret.critical[i].report = "unexpected_count"
              /\ ret.critical[i].listed = call.columns

\* C14 (amended): expecting T1 and N1 on a header with the sample columns T1 and
\* GERMLINE_SAMPLE, the check exits with status 1 after logging exactly one
\* report, the could-not-find report, which names N1 as unmatched and lists the
\* columns T1, GERMLINE_SAMPLE; no unexpected-count message is logged, the
\* number of columns being the expected two.
C14_GermlineMissingOnly ==
    GermlineScenario =>
        /\ ret.exit = 1
        /\ Len(ret.critical) = 1
        /\ NormalMissingReported
        /\ ret.critical[1].vcf_names = call.columns
        /\ ~Reported("unexpected_count")

C14_Witness ==
    /\ GermlineScenario
    /\ ret.exit = 1
    /\ ret.critical[1].count = 1

\* ---------------------------------------------------------------------------
\* Properties of the VCF validation in main()
\* ---------------------------------------------------------------------------

ExitedWith(reason) == pc = "exited" /\ exitCode = 1 /\ exitReason = reason

\* C15 as stated: every VCF header main() validates for sample names is also
\* scanned for the FORMAT/AD declaration, and a header without it ends the run
\* with the missing-field failure whatever the sample names are.
C15_AdOriginal ==
    \A i \in 1..Len(validated) :
        ~validated[i].hasAd => ExitedWith("no_ad_field")

\* C15 (amended): the small-variant header is scanned for the FORMAT/AD
\* declaration before its sample names are checked, and a header without it ends
\* the run with the missing-field failure whatever the sample names are; the
\* structural-variant header is checked for its sample names only, so that with
\* matching names the run goes on whether or not the declaration is there.
C15_AdSmallVariantsOnly ==
    \A i \in 1..Len(validated) :
        /\ (validated[i].vcf = "tumor_smlv_vcf_fp" /\ ~validated[i].hasAd)
              => ExitedWith("no_ad_field")
        /\ (validated[i].vcf = "tumor_smlv_vcf_fp" /\ validated[i].hasAd
                /\ ~validated[i].namesMatch)
              => ExitedWith("sample_names")
        /\ validated[i].vcf = "tumor_sv_vcf_fp"
              => IF validated[i].namesMatch
                 THEN exitReason \notin {"no_ad_field", "sample_names"}
                 ELSE ExitedWith("sample_names")

\* a small-variant header with neither the declaration nor the expected names
C15_Witness ==
    /\ Len(validated) = 1
    /\ validated[1].vcf = "tumor_smlv_vcf_fp"
    /\ ~validated[1].hasAd
    /\ ~validated[1].namesMatch
    /\ ExitedWith("no_ad_field")

\* ---------------------------------------------------------------------------
\* Properties of what upload_data_outputs transfers
\* ---------------------------------------------------------------------------

\* the directory name between '*' and '/*' in the --exclude pattern of an
\* 'aws s3' operation; the shell passes the quoted pattern on as written
ExcludedName(op) ==
    CASE op = "sync --exclude='*{WORK_DIR.name}/*'" -> "{WORK_DIR.name}"
      [] op = "sync --exclude='*work/*'"            -> "work"
      [] OTHER                                      -> "<nothing>"

IsPrefix(p, q) == Len(p) <= Len(q) /\ SubSeq(q, 1, Len(p)) = p

\* 'aws s3 <op> <src> <dst>' transfers the local file at path: the file lies
\* under src and no directory between src and the file matches the pattern
TransfersFile(t, path) ==
    /\ IsPrefix(t.src, path)
    /\ \A i \in (Len(t.src) + 1)..(Len(path) - 1) : path[i] # ExcludedName(t.op)

\* a file Nextflow left in its work directory
WorkFile == WORK_DIR \o <<"task">>

\* C16: without upload_nf_cache no command of upload_data_outputs transfers a
\* file that lies under the Nextflow work directory.
C16_CacheExcluded ==
    (~args.upload_nf_cache /\ outputTree.work) =>
        \A i \in UploadIndexes : ~TransfersFile(transfers[i], WorkFile)

\* C17: every command of upload_data_outputs sends OUTPUT_LOCAL_DIR/p to the
\* output directory followed by p; and when upload_nf_cache is set and the work
\* directory exists, a call of upload_data_outputs that was not stopped by a
\* failed command or by missing credentials has, as its last command, the
\* upload of the work directory to the output directory's work subpath.
C17_MirrorLayout ==
    /\ \A i \in UploadIndexes :
          /\ IsPrefix(OUTPUT_LOCAL_DIR, transfers[i].src)
          /\ transfers[i].dst = s3_output_dir(transfers[i].src)
    /\ (/\ PublishEnded
        /\ args.upload_nf_cache
        /\ outputTree.work
        /\ exitReason \notin {"no_credentials", "transfer_failed"}) =>
          /\ UploadIndexes # {}
          /\ transfers[Len(transfers)].src = WORK_DIR
          /\ transfers[Len(transfers)].dst = s3_output_dir(WORK_DIR)

\* ---------------------------------------------------------------------------
\* Properties of pull_sample_data and of the order of the stages of main()
\* ---------------------------------------------------------------------------

BamIndexTypes == {"tumor_bam_index_fp", "normal_bam_index_fp"}

IndexTypeOf(bam) == IF bam = "tumor_bam_fp" THEN "tumor_bam_index_fp" ELSE "normal_bam_index_fp"

\* pull_sample_data has returned
PullReturned == ValidationPassed /\ pullQueue = <<>>

\* C18: once pull_sample_data has returned, a copy of '<path>.bai' has been
\* executed for the tumor BAM and for the normal BAM; and a failed index copy is
\* the last command of the run, which ends with status 1 as a failed transfer,
\* nextflow.config unwritten and Nextflow never launched.
C18_BamIndex ==
    /\ PullReturned =>
          \A bam \in {"tumor_bam_fp", "normal_bam_fp"} :
              \E i \in TransferIndexes :
                  /\ transfers[i].src = <<args[bam], IndexTypeOf(bam)>>
                  /\ transfers[i].caller = "pull_sample_data"
                  /\ transfers[i].op = "cp"
                  /\ transfers[i].rc = 0
    /\ \A i \in TransferIndexes :
          (/\ transfers[i].caller = "pull_sample_data"
           /\ transfers[i].src[2] \in BamIndexTypes
           /\ transfers[i].rc # 0) =>
              /\ i = Len(transfers)
              /\ pc = "exited" /\ exitCode = 1 /\ exitReason = "transfer_failed"
              /\ configWrites = 0
              /\ returncode = -1
              /\ publishes = <<>>

\* both BAMs were copied and the copy of the normal BAM's index failed
C18_Witness ==
    /\ Len(transfers) = 4
    /\ transfers[4].src[2] = "normal_bam_index_fp"
    /\ transfers[4].rc # 0
    /\ transfers[3].src[2] = "tumor_bam_index_fp"
    /\ pc = "exited"

\* Nextflow has been launched
Launched == pc = "wait" \/ sigAt = "wait" \/ returncode # -1

SuppliedVcfs ==
    (IF args.tumor_smlv_vcf_fp # NoPath THEN <<"tumor_smlv_vcf_fp">> ELSE <<>>)
    \o (IF args.tumor_sv_vcf_fp # NoPath THEN <<"tumor_sv_vcf_fp">> ELSE <<>>)

StageOf(t) ==
    CASE t.caller = "pull_sample_data"    -> 1
      [] t.caller = "main"                -> 2
      [] t.caller = "upload_data_outputs" -> 3

\* C19: the stages of main() run in the order get_arguments, validation of the
\* supplied VCFs, pull_sample_data, reference sync, write of nextflow.config,
\* Nextflow, upload_data_outputs; Nextflow is launched only after every sample
\* copy and the reference sync returned 0 and nextflow.config was written once.
C19_StageOrder ==
    /\ (pc = "get_arguments" \/ exitReason = "argparse") =>
          validated = <<>> /\ transfers = <<>>
    /\ \A i \in 1..Len(validated) : validated[i].vcf = SuppliedVcfs[i]
    /\ ValidationPassed =>
          /\ Len(validated) = Len(SuppliedVcfs)
          /\ \A i \in 1..Len(validated) :
                validated[i].namesMatch
    /\ \A i \in TransferIndexes, j \in TransferIndexes :
          i < j => StageOf(transfers[i]) <= StageOf(transfers[j])
    /\ configWrites <= 1
    /\ configWrites = 1 => InputTransfersSucceeded
    /\ Launched => InputTransfersSucceeded /\ configWrites = 1
    /\ (publishes # <<>> \/ UploadIndexes # {}) => Launched /\ returncode = 0

\* Nextflow is running after two validated VCFs, six copies and the sync
C19_Witness ==
    /\ pc = "wait"
    /\ Len(validated) = 2
    /\ Len(transfers) = 7
    /\ configWrites = 1

\* ---------------------------------------------------------------------------
\* get_aws_credentials_for_gds_file, called on its own.  A pathlib path is the
\* sequence of its parts and whether it is anchored at '/'; the folder at depth
\* k of the target's path is named k.  FoldersApi is the environment: it lists
\* one folder for a path in 'existing', none for any other absolute path, and
\* for a path that is not absolute, which names no folder, it lists none or
\* rejects the request (ApiException, uncaught).
\* ---------------------------------------------------------------------------

MaxDepth == 3
MaxLookups == MaxDepth + 3

\* urllib.parse.urlparse(gds_path).path for the targets 'gds://vol' (no key),
\* 'gds://vol/1/../k' (a file) and 'gds://vol/1/../k/' (a directory)
GdsPaths ==
    {[keyed |-> FALSE, parts |-> <<>>, slash |-> FALSE]}
    \cup {[keyed |-> TRUE, parts |-> <<>>, slash |-> TRUE]}
    \cup {[keyed |-> TRUE, parts |-> [i \in 1..k |-> i], slash |-> s] :
             k \in 1..MaxDepth, s \in BOOLEAN}

\* pathlib.Path(pcom.path): '' is the relative path '.'
Path(gds_path) == [anchored |-> gds_path.keyed, parts |-> gds_path.parts]

\* pathlib.Path.parent: '/' and '.' are their own parents
parent(path) ==
    IF path.parts = <<>> THEN path
    ELSE [path EXCEPT !.parts = SubSeq(path.parts, 1, Len(path.parts) - 1)]

\* path.as_posix() == '/'
IsRoot(path) == path.anchored /\ path.parts = <<>>

\* the folder the walk starts at
StartDir(gds_path) ==
    IF ~gds_path.slash THEN parent(Path(gds_path)) ELSE Path(gds_path)

\* resp_list_folders for path_dir
ListFoldersResponses(path_dir, existing) ==
    IF path_dir.anchored
    THEN IF path_dir \in existing THEN {"one_item"} ELSE {"no_items"}
    ELSE {"no_items", "api_exception"}

CredInit ==
    \E gds_path \in GdsPaths :
    \E depths \in SUBSET (0..Len(gds_path.parts)) :
        /\ call = [fn       |-> "get_aws_credentials_for_gds_file",
                   gds_path |-> gds_path,
                   existing |-> {[anchored |-> TRUE, parts |-> [i \in 1..k |-> i]] :
                                    k \in depths}]
        /\ ret = [done |-> FALSE, at |-> "parse", path_dir |-> Path(gds_path),
                  lookups |-> <<>>, credentials |-> <<>>, exit |-> -1]

\* urlparse and the choice of the first folder
ParseGdsPath ==
    /\ call.fn = "get_aws_credentials_for_gds_file"
    /\ ret.at = "parse"
    /\ ret' = [ret EXCEPT !.at = "loop", !.path_dir = StartDir(call.gds_path)]
    /\ UNCHANGED call

\* one iteration of 'while True', and after a break the update_folder request
ListFolders ==
    /\ call.fn = "get_aws_credentials_for_gds_file"
    /\ ret.at = "loop"
    /\ Len(ret.lookups) < MaxLookups
    /\ \E resp \in ListFoldersResponses(ret.path_dir, call.existing) :
          LET looked == [ret EXCEPT !.lookups = Append(@, ret.path_dir)] IN
          ret' = CASE resp = "api_exception" ->
                        [looked EXCEPT !.done = TRUE, !.at = "raised", !.exit = 1]
                   [] resp = "one_item" ->
                        [looked EXCEPT !.done = TRUE, !.at = "returned",
                                       !.credentials = Append(@, ret.path_dir)]
                   [] resp = "no_items" /\ IsRoot(ret.path_dir) ->
                        [looked EXCEPT !.done = TRUE, !.at = "exit", !.exit = 1]
                   [] OTHER ->
                        [looked EXCEPT !.path_dir = parent(ret.path_dir)]
    /\ UNCHANGED call

CredNext ==
    \/ (ParseGdsPath /\ UNCHANGED <<mainVars, headerVars>>)
    \/ (ListFolders /\ UNCHANGED <<mainVars, headerVars>>)

CredSpecInit == CredInit /\ MainIdle /\ HeaderIdle

CredSpec == CredSpecInit /\ [][CredNext]_vars

\* ---------------------------------------------------------------------------
\* Properties of get_aws_credentials_for_gds_file
\* ---------------------------------------------------------------------------

\* C20: for a target that is a file, the walk starts at the target's parent
\* directory and goes up one level with every empty lookup; it returns at the
\* first directory whose lookup is not empty, with credentials requested for
\* exactly that directory; it exits with status 1 when the lookup of the root is
\* empty too; and it makes at most one lookup for each ancestor of the target.
C20_AncestorWalk ==
    (call.fn = "get_aws_credentials_for_gds_file" /\ ~call.gds_path.slash) =>
        /\ ret.lookups # <<>> => ret.lookups[1] = parent(Path(call.gds_path))
        /\ \A i \in 1..(Len(ret.lookups) - 1) :
              /\ ret.lookups[i + 1] = parent(ret.lookups[i])
              /\ Len(ret.lookups[i + 1].parts) < Len(ret.lookups[i].parts)
              /\ ret.lookups[i] \notin call.existing
        /\ ret.at = "returned" =>
              /\ ret.credentials = <<ret.lookups[Len(ret.lookups)]>>
              /\ ret.lookups[Len(ret.lookups)] \in call.existing
        /\ ret.at # "returned" => ret.credentials = <<>>
        /\ ret.at = "exit" =>
              /\ ret.exit = 1
              /\ IsRoot(ret.lookups[Len(ret.lookups)])
        /\ Len(ret.lookups) <= Len(call.gds_path.parts) + 1

\* ---------------------------------------------------------------------------
\* get_full_aws_key_prefix_for_gds_path, called on its own.  A string is the
\* sequence of its characters.  The key prefix of the credentials is an id, a
\* slash and the path of the folder the credentials were requested for.
\* ---------------------------------------------------------------------------

MaxKeyLen == 3

\* names of folders and files on the volume
KeyNames == {<<"a">>, <<"a", "a">>, <<"a", "+">>, <<"a", ".", "b">>}

CredentialId == <<"i", "d", "-", "i">>

\* the characters of the class [0-9a-z-] among those used here
IdChars == {"a", "b", "d", "i", "-"}

RegexAny == "."
RegexPlus == "+"

\* the regular expression a string stands for when it is put into a pattern
\* unescaped: one element per character, '+' repeating the element before it
RECURSIVE Elements(_, _)
Elements(pattern, parsed) ==
    IF pattern = <<>> THEN [ok |-> TRUE, elements |-> parsed]
    ELSE IF Head(pattern) = RegexPlus
         THEN IF parsed = <<>> \/ parsed[Len(parsed)].plus
              THEN [ok |-> FALSE, elements |-> <<>>]      \* re.error: nothing to repeat
              ELSE Elements(Tail(pattern),
                            [parsed EXCEPT ![Len(parsed)].plus = TRUE])
         ELSE Elements(Tail(pattern),
                       Append(parsed, [ch |-> Head(pattern), plus |-> FALSE]))

ElementMatches(e, c) == e.ch = RegexAny \/ e.ch = c

\* the number of characters from position i on that the element matches
RECURSIVE Run(_, _, _)
Run(e, text, i) ==
    IF i <= Len(text) /\ ElementMatches(e, text[i]) THEN 1 + Run(e, text, i + 1) ELSE 0

\* the positions at which a match of the elements starting at i may end, in the
\* order the backtracking matcher tries them (a repetition takes the most first)
RECURSIVE Ends(_, _, _)
RECURSIVE EndsRepeated(_, _, _, _)
Ends(elements, text, i) ==
    IF elements = <<>> THEN <<i>>
    ELSE LET e == Head(elements) IN
         IF e.plus
         THEN EndsRepeated(Tail(elements), text, i, Run(e, text, i))
         ELSE IF i <= Len(text) /\ ElementMatches(e, text[i])
              THEN Ends(Tail(elements), text, i + 1)
              ELSE <<>>
EndsRepeated(rest, text, i, n) ==
    IF n = 0 THEN <<>>
    ELSE Ends(rest, text, i + n) \o EndsRepeated(rest, text, i, n - 1)

\* re.match(fr'^{prefix}(.*)$', text): what the call does and group(1)
MatchUnescaped(prefix, text) ==
    LET parsed == Elements(prefix, <<>>) IN
    IF ~parsed.ok THEN [result |-> "re_error", group |-> <<>>]
    ELSE LET ends == Ends(parsed.elements, text, 1) IN
         IF ends = <<>> THEN [result |-> "none", group |-> <<>>]
         ELSE [result |-> "match", group |-> SubSeq(text, ends[1], Len(text))]

\* re.match(fr'^{re.escape(prefix)}(.*)$', text)
MatchEscaped(prefix, text) ==
    IF startswith(text, prefix)
    THEN [result |-> "match", group |-> SubSeq(text, Len(prefix) + 1, Len(text))]
    ELSE [result |-> "none", group |-> <<>>]

\* re.match(r'^[0-9a-z-]+/?(.*)$', text)
RECURSIVE IdRun(_, _)
IdRun(text, i) == IF i <= Len(text) /\ text[i] \in IdChars THEN 1 + IdRun(text, i + 1) ELSE 0

MatchCredentialPrefix(text) ==
    LET n == IdRun(text, 1)
        slash == IF n < Len(text) /\ text[n + 1] = "/" THEN 1 ELSE 0
    IN  IF n = 0 THEN [result |-> "none", group |-> <<>>]
        ELSE [result |-> "match", group |-> SubSeq(text, n + slash + 1, Len(text))]

\* the match of the shared prefix against the key on line 409
MatchSharedPrefix(prefix_shared, key) == MatchUnescaped(prefix_shared, key)

get_full_aws_key_prefix_for_gds_path(key, aws_cred_prefix) ==
    LET first == MatchCredentialPrefix(aws_cred_prefix) IN
    IF first.result = "none"
    THEN [done |-> TRUE, at |-> "exit", value |-> <<>>, exit |-> 1]
    ELSE LET second == MatchSharedPrefix(first.group, key) IN
         CASE second.result = "re_error" ->
                [done |-> TRUE, at |-> "raised", value |-> <<>>, exit |-> 1]
           [] second.result = "none" ->
                [done |-> TRUE, at |-> "exit", value |-> <<>>, exit |-> 1]
           [] OTHER ->
                [done |-> TRUE, at |-> "returned",
                 value |-> aws_cred_prefix \o second.group, exit |-> -1]

\* the key of a file below the folders with these names
KeyOf(names) == join("/", names)

\* the path of the folder at this depth of the key, '' for the root
FolderOf(names, depth) ==
    IF depth = 0 THEN <<>> ELSE join("/", SubSeq(names, 1, depth)) \o <<"/">>

\* aws_credentials.key_prefix for that folder
KeyPrefixOf(names, depth) == CredentialId \o <<"/">> \o FolderOf(names, depth)

ReconInit ==
    \E names \in SeqsUpTo(KeyNames, MaxKeyLen) :
    \E depth \in 0..(Len(names) - 1) :
        /\ names # <<>>
        /\ call = [fn |-> "get_full_aws_key_prefix_for_gds_path",
                   names |-> names, depth |-> depth,
                   key |-> KeyOf(names),
                   aws_cred_prefix |-> KeyPrefixOf(names, depth)]
        /\ ret = [done |-> FALSE]

GetFullAwsKeyPrefix ==
    /\ call.fn = "get_full_aws_key_prefix_for_gds_path"
    /\ ~ret.done
    /\ ret' = get_full_aws_key_prefix_for_gds_path(call.key, call.aws_cred_prefix)
    /\ UNCHANGED call

ReconNext ==
    \/ (GetFullAwsKeyPrefix /\ UNCHANGED <<mainVars, headerVars>>)

ReconSpecInit == ReconInit /\ MainIdle /\ HeaderIdle

ReconSpec == ReconSpecInit /\ [][ReconNext]_vars

\* ---------------------------------------------------------------------------
\* Properties of get_full_aws_key_prefix_for_gds_path
\* ---------------------------------------------------------------------------

\* C21: for every key K and every key prefix '<id>/P' issued for a folder P
\* above K, the function returns the issued prefix followed by the part of K
\* beyond P: the id, a slash and K itself, each component of K once and the file
\* name last.
C21_PrefixReconciliation ==
    (call.fn = "get_full_aws_key_prefix_for_gds_path" /\ ret.done) =>
        /\ ret.at = "returned"
        /\ ret.value = call.aws_cred_prefix
                          \o SubSeq(call.key, Len(FolderOf(call.names, call.depth)) + 1,
                                    Len(call.key))
        /\ ret.value = CredentialId \o <<"/">> \o call.key

\* ---------------------------------------------------------------------------
\* util.match_remote_path and the choice of the object store in get_vcf_header.
\* A remote path is its scheme prefix, one atom, followed by characters.
\* ---------------------------------------------------------------------------

MaxKeyChars == 3

SchemePrefixes == {"gds://", "s3://", "ftp://", "<no scheme>"}
ContainerNames == {<<>>, <<"b">>, <<"b", "c">>}
KeyChars == {"k", "/"}

\* the characters of text up to the first '/', or all of it
RECURSIVE UpToSlash(_)
UpToSlash(text) ==
    IF text = <<>> \/ Head(text) = "/" THEN <<>> ELSE <<Head(text)>> \o UpToSlash(Tail(text))

\* the last component of text, with the one slash that may end it
RECURSIVE LastComponent(_)
LastComponent(text) ==
    LET first == UpToSlash(text) IN
    IF Len(first) = Len(text) THEN text
    ELSE IF Len(first) + 1 = Len(text) THEN text
    ELSE LastComponent(SubSeq(text, Len(first) + 2, Len(text)))

NoMatch == [matched |-> FALSE, bucket_name |-> <<>>, key |-> <<>>, key_name |-> <<>>]

\* path_re.match(path): the named groups of the match, or no match
MatchRemotePath(scheme, rest) ==
    LET bucket_name == UpToSlash(rest)
        key == SubSeq(rest, Len(bucket_name) + 2, Len(rest))
        key_name == LastComponent(key)
    IN  IF /\ scheme \in {"gds://", "s3://"}
           /\ bucket_name # <<>>
           /\ Len(bucket_name) < Len(rest)
           /\ key # <<>>
           /\ UpToSlash(key_name) # <<>>
        THEN [matched |-> TRUE, bucket_name |-> bucket_name, key |-> key,
              key_name |-> key_name]
        ELSE NoMatch

\* the groups the pattern names
GroupNames == {"bucket_name", "key", "key_name"}

\* the group get_vcf_header reads the bucket from in its s3:// branch
S3BucketGroup == "bucket"

NotLocated(how) == [done |-> TRUE, at |-> how, backend |-> "none", container |-> <<>>,
                    key |-> <<>>]

\* the statements of get_vcf_header that turn vcf_remote_path into an object
\* store, a container and a key
LocateVcf(scheme, rest) ==
    LET m == MatchRemotePath(scheme, rest) IN
    CASE scheme = "gds://" ->
            IF m.matched
            THEN [done |-> TRUE, at |-> "located", backend |-> "gds",
                  container |-> m.bucket_name, key |-> m.key]
            ELSE NotLocated("type_error")
      [] scheme = "s3://" ->
            IF ~m.matched THEN NotLocated("type_error")
            ELSE IF S3BucketGroup \notin GroupNames THEN NotLocated("index_error")
            ELSE [done |-> TRUE, at |-> "located", backend |-> "s3",
                  container |-> m[S3BucketGroup], key |-> m.key]
      [] OTHER -> NotLocated("assertion_error")

PathInit ==
    \E scheme \in SchemePrefixes, container \in ContainerNames, slash \in BOOLEAN,
       key \in SeqsUpTo(KeyChars, MaxKeyChars) :
        /\ ~slash => key = <<>>
        /\ call = [fn |-> "get_vcf_header", scheme |-> scheme, container |-> container,
                   key |-> key,
                   rest |-> container \o (IF slash THEN <<"/">> ELSE <<>>) \o key]
        /\ ret = [done |-> FALSE]

LocateVcfPath ==
    /\ call.fn = "get_vcf_header"
    /\ ~ret.done
    /\ ret' = LocateVcf(call.scheme, call.rest)
    /\ UNCHANGED call

PathNext ==
    \/ (LocateVcfPath /\ UNCHANGED <<mainVars, headerVars>>)

PathSpecInit == PathInit /\ MainIdle /\ HeaderIdle

PathSpec == PathSpecInit /\ [][PathNext]_vars

\* ---------------------------------------------------------------------------
\* Properties of the parsing of remote paths
\* ---------------------------------------------------------------------------

\* C22: a remote path without the gds:// or s3:// prefix, or with an empty
\* container, is not located; and every path util.match_remote_path matches is
\* located in the object store its prefix names, with the container and the key
\* that stand in the path.
C22_RemotePathParsing ==
    (call.fn = "get_vcf_header" /\ ret.done) =>
        /\ (call.scheme \notin {"gds://", "s3://"} \/ call.container = <<>>) =>
              /\ ~MatchRemotePath(call.scheme, call.rest).matched
              /\ ret.at # "located"
        /\ MatchRemotePath(call.scheme, call.rest).matched =>
              /\ ret.at = "located"
              /\ ret.backend = (IF call.scheme = "gds://" THEN "gds" ELSE "s3")
              /\ ret.container = call.container
              /\ ret.key = call.key

\* ---------------------------------------------------------------------------
\* pull_sample_data followed by get_config, every copy succeeding.  A remote
\* path is the folder and the name of the object; a local path is the sequence
\* of its components.
\* ---------------------------------------------------------------------------

MaxConfigCalls == 2

RemoteFolders == {"run1", "run2"}
BamNames == {<<"x", ".bam">>, <<"y", ".bam">>}
VcfNames == {<<"x", ".vcf.gz">>}
CpuCounts == {4, 8}

RemoteBams == [folder : RemoteFolders, name : BamNames]
RemoteVcfs == [folder : RemoteFolders, name : VcfNames]
NoRemote == [folder |-> "none", name |-> <<>>]

\* f'{bam_fp}.bai'
IndexOf(remote) == [remote EXCEPT !.name = @ \o <<".bai">>]

\* remote_paths of pull_sample_data as (input type, remote path) pairs, in the
\* dict's insertion order
RemotePathItems(a) ==
    <<[input_type |-> "tumor_bam_fp", remote |-> a.tumor_bam_fp],
      [input_type |-> "normal_bam_fp", remote |-> a.normal_bam_fp],
      [input_type |-> "tumor_bam_index_fp", remote |-> IndexOf(a.tumor_bam_fp)],
      [input_type |-> "normal_bam_index_fp", remote |-> IndexOf(a.normal_bam_fp)]>>
    \o (IF a.tumor_smlv_vcf_fp # NoRemote
        THEN <<[input_type |-> "tumor_smlv_vcf_fp", remote |-> a.tumor_smlv_vcf_fp]>>
        ELSE <<>>)
    \o (IF a.tumor_sv_vcf_fp # NoRemote
        THEN <<[input_type |-> "tumor_sv_vcf_fp", remote |-> a.tumor_sv_vcf_fp]>>
        ELSE <<>>)

\* remote_path_components['key_name']
key_name(remote) == remote.name

\* SAMPLE_LOCAL_DIR / key_name
local_path(remote) == SAMPLE_LOCAL_DIR \o <<key_name(remote)>>

\* the dict pull_sample_data returns
local_paths(items) ==
    [t \in {items[i].input_type : i \in 1..Len(items)} |->
        LET i == CHOOSE k \in 1..Len(items) : items[k].input_type = t
        IN  local_path(items[i].remote)]

\* the 'aws s3 cp' commands of the loop: each writes the object to
\* SAMPLE_LOCAL_DIR/<its name>, replacing a file of that name
Copies(items) ==
    [i \in 1..Len(items) |->
        [input_type |-> items[i].input_type, source |-> items[i].remote,
         written |-> local_path(items[i].remote)]]

NOFILE == <<"NOFILE">>

\* a line for an optional input, left out when the input is absent
OptionalLineOmitted(name, paths, input_type) ==
    IF input_type \in DOMAIN paths
    THEN <<[name |-> name, value |-> paths[input_type]]>>
    ELSE <<>>

\* f"... = '{sample_data_local_paths.get(input_type, 'NOFILE')}'"
OptionalLine(name, paths, input_type) ==
    <<[name |-> name,
       value |-> IF input_type \in DOMAIN paths THEN paths[input_type] ELSE NOFILE]>>

\* the lines that depend on nothing but the script's constants
ReferenceLines == <<[name |-> "ref_data_*", value |-> REFERENCE_LOCAL_DIR]>>
ResourceLines == <<[name |-> "mem_*, jar_*, path_circos", value |-> <<"constant">>]>>
ConfigMisc == <<[name |-> "config_misc", value |-> NEXTFLOW_DIR]>>

get_config_params(config_settings) ==
    LET paths == config_settings.sample_data_local_paths IN
    <<[name |-> "tumor_name", value |-> <<config_settings.tumor_name>>],
      [name |-> "normal_name", value |-> <<config_settings.normal_name>>],
      [name |-> "tumor_bam", value |-> paths["tumor_bam_fp"]],
      [name |-> "normal_bam", value |-> paths["normal_bam_fp"]],
      [name |-> "tumor_bam_index", value |-> paths["tumor_bam_index_fp"]],
      [name |-> "normal_bam_index", value |-> paths["normal_bam_index_fp"]]>>
    \o OptionalLine("tumor_smlv_vcf", paths, "tumor_smlv_vcf_fp")
    \o OptionalLine("tumor_sv_vcf", paths, "tumor_sv_vcf_fp")
    \o <<[name |-> "output_dir", value |-> OUTPUT_LOCAL_DIR],
         [name |-> "publish_mode", value |-> <<"symlink">>]>>
    \o ReferenceLines
    \o <<[name |-> "cpus", value |-> <<config_settings.cpu_count>>]>>
    \o ResourceLines

get_config(config_settings) ==
    <<[name |-> "params {", value |-> <<>>]>>
    \o get_config_params(config_settings)
    \o <<[name |-> "}", value |-> <<>>]>>
    \o ConfigMisc

AcqInit ==
    \E tumor_bam_fp \in RemoteBams, normal_bam_fp \in RemoteBams,
       tumor_smlv_vcf_fp \in RemoteVcfs \cup {NoRemote},
       tumor_sv_vcf_fp \in RemoteVcfs \cup {NoRemote},
       cpu_count \in CpuCounts :
        /\ call = [fn |-> "pull_sample_data",
                   tumor_name |-> "T1", normal_name |-> "N1",
                   tumor_bam_fp |-> tumor_bam_fp, normal_bam_fp |-> normal_bam_fp,
                   tumor_smlv_vcf_fp |-> tumor_smlv_vcf_fp,
                   tumor_sv_vcf_fp |-> tumor_sv_vcf_fp,
                   cpu_count |-> cpu_count]
        /\ ret = [done |-> FALSE, at |-> "pull", copies |-> <<>>,
                  sample_data_local_paths |-> <<>>, documents |-> <<>>]

\* pull_sample_data: the loop over remote_paths and the returned dict
PullSamplePaths ==
    /\ call.fn = "pull_sample_data"
    /\ ret.at = "pull"
    /\ ret' = [ret EXCEPT !.at = "config",
                          !.copies = Copies(RemotePathItems(call)),
                          !.sample_data_local_paths = local_paths(RemotePathItems(call))]
    /\ UNCHANGED call

\* config_settings as main() packs it
config_settings ==
    [tumor_name |-> call.tumor_name, normal_name |-> call.normal_name,
     sample_data_local_paths |-> ret.sample_data_local_paths,
     cpu_count |-> call.cpu_count]

\* a call of get_config with these settings
GetConfig ==
    /\ call.fn = "pull_sample_data"
    /\ ret.at = "config"
    /\ Len(ret.documents) < MaxConfigCalls
    /\ ret' = [ret EXCEPT !.documents = Append(@, get_config(config_settings)),
                          !.done = TRUE]
    /\ UNCHANGED call

AcqNext ==
    \/ (PullSamplePaths /\ UNCHANGED <<mainVars, headerVars>>)
    \/ (GetConfig /\ UNCHANGED <<mainVars, headerVars>>)

AcqSpecInit == AcqInit /\ MainIdle /\ HeaderIdle

AcqSpec == AcqSpecInit /\ [][AcqNext]_vars

\* ---------------------------------------------------------------------------
\* Properties of get_config and of the local paths
\* ---------------------------------------------------------------------------

Acquired == call.fn = "pull_sample_data" /\ ret.at = "config"

LinesNamed(document, name) == {i \in 1..Len(document) : document[i].name = name}

\* the document has exactly one line of this name, with this value
HasLine(document, name, value) ==
    /\ Cardinality(LinesNamed(document, name)) = 1
    /\ \A i \in LinesNamed(document, name) : document[i].value = value

ValueOf(document, name) ==
    document[CHOOSE i \in 1..Len(document) : document[i].name = name].value

\* C30: copies of different remote objects write different local files, so no
\* copy replaces a file written by an earlier one, the recorded local paths of
\* inputs with different remote paths differ, and nextflow.config names a
\* different file for the tumor BAM and for the normal BAM when they differ.
C30_DistinctLocalPaths ==
    Acquired =>
        /\ \A i \in 1..Len(ret.copies), j \in 1..Len(ret.copies) :
              ret.copies[i].source # ret.copies[j].source =>
                  /\ ret.copies[i].written # ret.copies[j].written
                  /\ ret.sample_data_local_paths[ret.copies[i].input_type]
                        # ret.sample_data_local_paths[ret.copies[j].input_type]
        /\ \A i \in 1..Len(ret.documents) :
              call.tumor_bam_fp # call.normal_bam_fp =>
                  ValueOf(ret.documents[i], "tumor_bam")
                      # ValueOf(ret.documents[i], "normal_bam")

\* ---------------------------------------------------------------------------
\* submit_job_manual: the Lambda handler main().  The event is modelled by
\* what validate_event_data and main() ask of it; AWS Batch and ECR are the
\* environment.
\* ---------------------------------------------------------------------------

Absent == "<absent>"

\* the values an event may carry for the keys the handler reads
EventSets ==
    [instance_vcpus    : {Absent, "8", "4"},
     instance_memory   : {Absent, "30", "200", "abc"},
     job_name          : {Absent, "valid", "invalid", "too_long"},
     nextflow_args_str : {Absent, "quoted", "unquoted"},
     unknown_argument  : BOOLEAN,
     tumor_name        : {Absent, "T1"},
     tumor_bam         : {"found", "malformed", "bad_extension", "not_found"},
     output_dir        : {"matched", "malformed"},
     docker_image_tag  : {Absent, "default_image", "leftover_image", "new", "unavailable"}]

JOB_DEFINITION_ARN == "arn:default"

Defaults == [instance_memory |-> "30", instance_vcpus |-> "8"]

\* the loop 'Set defaults if values not provided'
SetDefaults(event) ==
    [event EXCEPT !.instance_memory = IF @ = Absent THEN Defaults.instance_memory ELSE @,
                  !.instance_vcpus = IF @ = Absent THEN Defaults.instance_vcpus ELSE @]

\* int(value) for the values used here
IntOf(value) == CASE value = "30" -> 30 [] value = "200" -> 200 [] value = "8" -> 8
                  [] value = "4" -> 4 [] OTHER -> -1

RequiredVcpus == 8
MaxMemory == 100

\* validate_event_data: the event as it leaves it and the value it returns,
\* "none" or the reason of the response built by log_error_and_get_response
validate_event_data(event) ==
    LET e == SetDefaults(event)
        Reject(reason) == [event |-> e, response |-> reason]
    IN  CASE event.instance_vcpus # Absent /\ IntOf(event.instance_vcpus) # RequiredVcpus
                -> [event |-> event, response |-> "vcpus"]
          [] OTHER ->
             CASE e.job_name = "invalid"               -> Reject("job_name_invalid")
               [] e.job_name = "too_long"              -> Reject("job_name_too_long")
               [] e.nextflow_args_str = "unquoted"     -> Reject("nextflow_args_unquoted")
               [] e.unknown_argument                   -> Reject("unknown_argument")
               [] e.tumor_name = Absent                -> Reject("missing_argument")
               [] e.tumor_bam \in {"malformed", "bad_extension"}
                                                       -> Reject("bad_input_path")
               [] e.tumor_bam = "not_found"            -> Reject("file_not_found")
               [] e.output_dir = "malformed"           -> Reject("bad_output_dir")
               [] IntOf(e.instance_memory) = -1        -> Reject("not_an_integer")
               [] IntOf(e.instance_memory) > MaxMemory -> Reject("excessive_memory")
               [] OTHER                                -> [event |-> e, response |-> "none"]

\* get_job_definition_arn: the value it returns and the definition it registers
get_job_definition_arn(docker_image_tag) ==
    CASE docker_image_tag = "default_image"  -> [arn |-> JOB_DEFINITION_ARN, registered |-> {}]
      [] docker_image_tag = "leftover_image" -> [arn |-> "arn:leftover", registered |-> {}]
      [] docker_image_tag = "new"            -> [arn |-> "arn:new", registered |-> {"arn:new"}]
      [] OTHER                               -> [arn |-> "<error response>", registered |-> {}]

\* the answers of CLIENT_BATCH.submit_job: Batch refuses a job name it does not
\* accept and a job definition that is no ARN
SubmitJobAnswers(job_name, job_definition_arn) ==
    IF job_name \in {"invalid", "too_long"} \/ job_definition_arn = "<error response>"
    THEN {"client_error"}
    ELSE {"job_id", "no_job_id", "client_error"}

ManualInit ==
    \E event \in EventSets :
        /\ call = [fn |-> "submit_job_manual.main", event |-> event]
        /\ ret = [done |-> FALSE, at |-> "validate_event_data", event |-> event,
                  validation |-> "none", job_definition_arn |-> "none",
                  registered |-> {}, deregistered |-> {}, jobs |-> <<>>,
                  statusCode |-> 0]

ManualAt(position) == call.fn = "submit_job_manual.main" /\ ret.at = position

Raise == [ret EXCEPT !.done = TRUE, !.at = "raised"]
Return(statusCode) == [ret EXCEPT !.done = TRUE, !.at = "returned", !.statusCode = statusCode]

\* 'validate_event_data(event)', a statement of main(): the event keeps the
\* defaults set, the value returned is dropped and main() goes on
ValidateEventData ==
    /\ ManualAt("validate_event_data")
    /\ LET v == validate_event_data(ret.event) IN
       ret' = [ret EXCEPT !.event = v.event, !.validation = v.response,
                          !.at = "construct_command"]
    /\ UNCHANGED call

\* the f-string of the command: a key the event lacks raises KeyError
ConstructCommand ==
    /\ ManualAt("construct_command")
    /\ ret' = IF ret.event.tumor_name = Absent \/ ret.event.instance_vcpus = Absent
              THEN Raise
              ELSE [ret EXCEPT !.at = "job_definition"]
    /\ UNCHANGED call

\* 'if docker_image_tag := event.get(...)', then job_name and the two int() calls
GetJobDefinition ==
    /\ ManualAt("job_definition")
    /\ LET d == IF ret.event.docker_image_tag # Absent
                THEN get_job_definition_arn(ret.event.docker_image_tag)
                ELSE [arn |-> JOB_DEFINITION_ARN, registered |-> {}]
           chosen == [ret EXCEPT !.job_definition_arn = d.arn,
                                 !.registered = @ \cup d.registered]
       IN  ret' = IF IntOf(ret.event.instance_memory) = -1
                  THEN [chosen EXCEPT !.done = TRUE, !.at = "raised"]
                  ELSE [chosen EXCEPT !.at = "submit_job"]
    /\ UNCHANGED call

\* CLIENT_BATCH.submit_job(...) and the check of the response's jobId
SubmitJob ==
    /\ ManualAt("submit_job")
    /\ \E answer \in SubmitJobAnswers(ret.event.job_name, ret.job_definition_arn) :
          ret' = CASE answer = "client_error" -> Raise
                   [] answer = "no_job_id"    -> Return(400)
                   [] OTHER ->
                        [ret EXCEPT !.at = "deregister",
                                    !.jobs = Append(@,
                                        [jobDefinition |-> ret.job_definition_arn,
                                         vcpus |-> IntOf(ret.event.instance_vcpus),
                                         memory |-> IntOf(ret.event.instance_memory)])]
    /\ UNCHANGED call

\* 'if job_definition_arn != JOB_DEFINITION_ARN: deregister', then the 200 response
DeregisterAndReturn ==
    /\ ManualAt("deregister")
    /\ ret' = [Return(200) EXCEPT !.deregistered =
                  IF ret.job_definition_arn # JOB_DEFINITION_ARN
                  THEN @ \cup {ret.job_definition_arn} ELSE @]
    /\ UNCHANGED call

ManualNext ==
    \/ (ValidateEventData /\ UNCHANGED <<mainVars, headerVars>>)
    \/ (ConstructCommand /\ UNCHANGED <<mainVars, headerVars>>)
    \/ (GetJobDefinition /\ UNCHANGED <<mainVars, headerVars>>)
    \/ (SubmitJob /\ UNCHANGED <<mainVars, headerVars>>)
    \/ (DeregisterAndReturn /\ UNCHANGED <<mainVars, headerVars>>)

ManualSpecInit == ManualInit /\ MainIdle /\ HeaderIdle

ManualSpec == ManualSpecInit /\ [][ManualNext]_vars

\* ---------------------------------------------------------------------------
\* Properties of the manual submission handler
\* ---------------------------------------------------------------------------

ManualHandler == call.fn = "submit_job_manual.main"

\* C24: for every event validate_event_data rejects, no Batch job is submitted
\* and the handler, when it returns, returns the 400 response.
C24_RejectedEventNotSubmitted ==
    (ManualHandler /\ ret.validation # "none") =>
        /\ ret.jobs = <<>>
        /\ ret.at = "returned" => ret.statusCode = 400

\* C25: whenever the handler has returned for an event validate_event_data
\* accepts, every job definition it registered has been deregistered, and the
\* default job definition never is.
C25_RegisteredDefinitionDeregistered ==
    (ManualHandler /\ ret.validation = "none") =>
        /\ JOB_DEFINITION_ARN \notin ret.deregistered
        /\ ret.at = "returned" => ret.registered \subseteq ret.deregistered

\* ---------------------------------------------------------------------------
\* The subject-based submission handler: submit_job/lambda_entrypoint.py main
\* ---------------------------------------------------------------------------

\* args_known of validate_event_data
args_known == {"subject_id", "tumor_sample_id", "normal_sample_id"}

\* the keys an event may carry: the known ones and one the handler does not know
EventArgs == args_known \cup {"unknown_arg"}

\* subject identifiers, as sequences of characters; the first is a prefix of the second
SubjectIds == {<<"SBJ", "1">>, <<"SBJ", "1", "0">>}

\* event payloads: the keys present, and the value of 'subject_id' (<<>> is the
\* empty string, and stands for no value when the key is absent)
SubjectEvents ==
    {e \in [args : SUBSET EventArgs, subject_id : SubjectIds \cup {<<>>}] :
        "subject_id" \in e.args \/ e.subject_id = <<>>}

\* validate_event_data of the subject-based handler: the exception it raises, or "none"
submit_job_validate_event_data(event) ==
    LET args_unknown == event.args \ args_known
        sample_id_provided == ("tumor_sampe_id" \in event.args) \/ ("normal_sample_id" \in event.args)
        subject_id_provided == "subject_id" \in event.args
    IN  IF args_unknown # {} THEN "ValueError"
        ELSE IF ~(subject_id_provided # sample_id_provided) THEN "ValueError"
        ELSE "none"

\* data['job_name'] of get_submission_data
JobName(project_owner, project_name, subject_id) ==
    <<"gpl_", project_owner, "-", project_name, "_">> \o subject_id

\* a is a contiguous part of b
IsSubstring(a, b) == \E i \in 0..(Len(b) - Len(a)) : SubSeq(b, i + 1, i + Len(a)) = a

\* a duplicate check that matches by containment
JobNameContained(job_name, jobSummaryList) ==
    \E job \in jobSummaryList : IsSubstring(job_name, job)

\* the loop over job_list['jobSummaryList']: 'data['job_name'] == job['jobName']'
JobNameListed(job_name, jobSummaryList) ==
    \E job \in jobSummaryList : job_name = job

\* the job names the queue may list
ListedJobNames ==
    {JobName("UMCCR", "CUP", s) : s \in SubjectIds} \cup {<<"gpl_", "other">>}

SubjectInit ==
    \E event \in SubjectEvents :
        /\ call = [fn |-> "submit_job.main", event |-> event]
        /\ ret = [done |-> FALSE, at |-> "validate_event_data", validation |-> "unset",
                  exception |-> "none", lookups |-> 0, subject_id |-> <<>>,
                  job_name |-> <<>>, listed |-> FALSE, jobSummaryList |-> {},
                  invocations |-> 0, statusCode |-> 0]

SubjectAt(position) == call.fn = "submit_job.main" /\ ret.at = position

RaiseOf(r, exception) == [r EXCEPT !.done = TRUE, !.at = "raised", !.exception = exception]

\* 'validate_event_data(event)': a ValueError propagates out of main
SubjectValidateEventData ==
    /\ SubjectAt("validate_event_data")
    /\ LET validation == submit_job_validate_event_data(call.event)
           checked == [ret EXCEPT !.validation = validation]
       IN  ret' = IF validation # "none" THEN RaiseOf(checked, validation)
                  ELSE [checked EXCEPT !.at = "get_sample_information"]
    /\ UNCHANGED call

\* 'if subject_id := event.get('subject_id')': one subject metadata lookup
GetSubjectInformation ==
    /\ SubjectAt("get_sample_information")
    /\ call.event.subject_id # <<>>
    /\ LET looked == [ret EXCEPT !.lookups = @ + 1]
       IN  \E outcome \in {"ok", "ValueError"} :
              ret' = IF outcome = "ok"
                     THEN [looked EXCEPT !.at = "get_submission_data",
                                         !.subject_id = call.event.subject_id]
                     ELSE RaiseOf(looked, outcome)
    /\ UNCHANGED call

\* the else branch: event['tumor_sample_id'] and event['normal_sample_id'] are
\* subscripted, each sample's metadata looked up, phenotypes and subject compared
GetSampleInformation ==
    /\ SubjectAt("get_sample_information")
    /\ call.event.subject_id = <<>>
    /\ LET tumor == [ret EXCEPT !.lookups = @ + 1]
           normal == [tumor EXCEPT !.lookups = @ + 1]
       IN  IF "tumor_sample_id" \notin call.event.args
           THEN ret' = RaiseOf(ret, "KeyError")
           ELSE \/ ret' = RaiseOf(tumor, "ValueError")
                \/ /\ "normal_sample_id" \notin call.event.args
                   /\ ret' = RaiseOf(tumor, "KeyError")
                \/ /\ "normal_sample_id" \in call.event.args
                   /\ \/ \E exception \in {"ValueError", "AssertionError"} :
                            ret' = RaiseOf(normal, exception)
                      \/ \E subject_id \in SubjectIds :
                            ret' = [normal EXCEPT !.at = "get_submission_data",
                                                  !.subject_id = subject_id]
    /\ UNCHANGED call

\* the FFPE check and get_submission_data: either raises ValueError
GetSubmissionData ==
    /\ SubjectAt("get_submission_data")
    /\ \/ ret' = RaiseOf(ret, "ValueError")
       \/ ret' = [ret EXCEPT !.at = "list_jobs",
                             !.job_name = JobName("UMCCR", "CUP", ret.subject_id)]
    /\ UNCHANGED call

\* CLIENT_BATCH.list_jobs and the loop over the listed jobs
ListJobs ==
    /\ SubjectAt("list_jobs")
    /\ \/ ret' = RaiseOf(ret, "ClientError")
       \/ \E jobSummaryList \in SUBSET ListedJobNames :
             LET listed == [ret EXCEPT !.listed = TRUE, !.jobSummaryList = jobSummaryList]
             IN  ret' = IF JobNameListed(ret.job_name, jobSummaryList)
                        THEN [listed EXCEPT !.done = TRUE, !.at = "returned", !.statusCode = 202]
                        ELSE [listed EXCEPT !.at = "invoke"]
    /\ UNCHANGED call

\* CLIENT_LAMBDA.invoke and the response built from its StatusCode
InvokeLambda ==
    /\ SubjectAt("invoke")
    /\ LET invoked == [ret EXCEPT !.invocations = @ + 1]
       IN  \/ ret' = RaiseOf(invoked, "ClientError")
           \/ ret' = [invoked EXCEPT !.done = TRUE, !.at = "returned", !.statusCode = 200]
    /\ UNCHANGED call

SubjectNext ==
    \/ (SubjectValidateEventData /\ UNCHANGED <<mainVars, headerVars>>)
    \/ (GetSubjectInformation /\ UNCHANGED <<mainVars, headerVars>>)
    \/ (GetSampleInformation /\ UNCHANGED <<mainVars, headerVars>>)
    \/ (GetSubmissionData /\ UNCHANGED <<mainVars, headerVars>>)
    \/ (ListJobs /\ UNCHANGED <<mainVars, headerVars>>)
    \/ (InvokeLambda /\ UNCHANGED <<mainVars, headerVars>>)

SubjectSpecInit == SubjectInit /\ MainIdle /\ HeaderIdle

SubjectSpec == SubjectSpecInit /\ [][SubjectNext]_vars

\* ---------------------------------------------------------------------------
\* Properties of the subject-based submission handler
\* ---------------------------------------------------------------------------

SubjectHandler == call.fn = "submit_job.main"

\* the events the validation is meant to accept: 'subject_id' alone, or both
\* sample identifiers without 'subject_id'
AcceptableEvent(event) ==
    \/ event.args = {"subject_id"}
    \/ event.args = {"tumor_sample_id", "normal_sample_id"}

\* C26: once validate_event_data has run, the event was accepted if and only
\* if it carries 'subject_id' alone or both sample identifiers without
\* 'subject_id'; every other event ended in a ValueError with no metadata
\* lookup made.
C26_EventValidation ==
    (SubjectHandler /\ ret.validation # "unset") =>
        /\ (ret.validation = "none") <=> AcceptableEvent(call.event)
        /\ ~AcceptableEvent(call.event) =>
              (ret.at = "raised" /\ ret.exception = "ValueError" /\ ret.lookups = 0)

\* C27: once the queue's jobs are listed, a listed job named exactly as the
\* computed job name means the handler has returned 202 without invoking the
\* submission Lambda; with no such job (a longer name containing it does not
\* count) the Lambda is invoked at most once so far and exactly once by the
\* time the handler ends.
C27_ExactDuplicateCheck ==
    (SubjectHandler /\ ret.listed) =>
        /\ ret.job_name \in ret.jobSummaryList =>
              (ret.at = "returned" /\ ret.statusCode = 202 /\ ret.invocations = 0)
        /\ ret.job_name \notin ret.jobSummaryList =>
              /\ ret.invocations <= 1
              /\ ret.done => ret.invocations = 1

\* a job containing the computed name is listed, none has exactly that name,
\* and the handler has returned after one invocation
C27_Witness ==
    /\ SubjectHandler /\ ret.listed /\ ret.at = "returned"
    /\ ret.job_name \notin ret.jobSummaryList
    /\ \E job \in ret.jobSummaryList : IsSubstring(ret.job_name, job)
    /\ ret.invocations = 1 /\ ret.statusCode = 200

\* ---------------------------------------------------------------------------
\* The cached access token: util get_libica_gds_configuration
\* ---------------------------------------------------------------------------

\* the clock readings of one process's life
MaxClock == 5

\* the calls of get_libica_gds_configuration one process makes
MaxTokenCalls == 4

\* 'ICA_ACCESS_TOKEN = None'
NoToken == [set |-> FALSE, expires |-> 0]

\* libumccr.aws.libsm.get_secret('IcaSecretsPortal') at time now: the tokens
\* the secret store may hold, each still valid and with an expiry of its own
get_secret(now) == {[set |-> TRUE, expires |-> e] : e \in (now + 1)..(MaxClock + 1)}

TokenInit ==
    /\ call = [fn |-> "get_libica_gds_configuration"]
    /\ ret = [done |-> FALSE, now |-> 0, ICA_ACCESS_TOKEN |-> NoToken,
              calls |-> 0, fetches |-> 0, fetched_while_valid |-> FALSE,
              api_key |-> NoToken, returned_at |-> 0]

TokenAt == call.fn = "get_libica_gds_configuration"

\* one call: the global is filled from the secret store when it is unset, and
\* the configuration returned carries the global as its api_key
GetLibicaGdsConfiguration ==
    /\ TokenAt
    /\ ret.calls < MaxTokenCalls
    /\ \E fetched \in get_secret(ret.now) :
          LET token == IF ~ret.ICA_ACCESS_TOKEN.set THEN fetched ELSE ret.ICA_ACCESS_TOKEN
          IN  ret' = [ret EXCEPT !.done = TRUE,
                                 !.ICA_ACCESS_TOKEN = token,
                                 !.calls = @ + 1,
                                 !.fetches = IF ~ret.ICA_ACCESS_TOKEN.set THEN @ + 1 ELSE @,
                                 !.fetched_while_valid =
                                     @ \/ (ret.ICA_ACCESS_TOKEN.set
                                           /\ ret.ICA_ACCESS_TOKEN.expires > ret.now
                                           /\ token # ret.ICA_ACCESS_TOKEN),
                                 !.api_key = token,
                                 !.returned_at = ret.now]
    /\ UNCHANGED call

\* time passes in the process between two calls; the module global is kept
ClockTick ==
    /\ TokenAt
    /\ ret.now < MaxClock
    /\ ret' = [ret EXCEPT !.now = @ + 1]
    /\ UNCHANGED call

TokenNext ==
    \/ (GetLibicaGdsConfiguration /\ UNCHANGED <<mainVars, headerVars>>)
    \/ (ClockTick /\ UNCHANGED <<mainVars, headerVars>>)

TokenSpecInit == TokenInit /\ MainIdle /\ HeaderIdle

TokenSpec == TokenSpecInit /\ [][TokenNext]_vars

\* C28: the cached token is never fetched again while it is valid, and every
\* configuration a call has returned carried a token that had not expired at
\* the time of the return.
C28_TokenNeverExpired ==
    (TokenAt /\ ret.calls > 0) =>
        /\ ~ret.fetched_while_valid
        /\ ret.api_key.set
        /\ ret.api_key.expires > ret.returned_at

\* ---------------------------------------------------------------------------
\* Termination of get_vcf_header: the chunk loop, each iteration of which is
\* taken sooner or later while the loop has not ended
\* ---------------------------------------------------------------------------

\* the objects of a single gzip member, the uncompressed and the invalid ones
HeaderFairInit == HeaderSpecInit /\ Len(hFile.members) = Len(<<"member">>)

HeaderFairSpec == HeaderFairInit /\ [][HeaderNext]_vars /\ WF_vars(HeaderNext)

\* every chunk read so far held at least one further byte of the object
ChunksConsumed == hChunks <= hPos /\ hPos <= ObjectLen(hFile)

====
